---- MODULE Spec2Model ----
EXTENDS Integers, Sequences, FiniteSets, TLC

(***************************************************************************)
(* The Telegram learning-diary bot.  The repository holds three revisions  *)
(* of the bot script: src/index.js, src/unnamed/part_001 (PDF export) and  *)
(* the second half of src/database.js (selectable quiz format).  `build`   *)
(* says which revision is running.  A text is a sequence of one-character  *)
(* strings, so that prefix tests, regular expressions and parseInt are     *)
(* computed on it.                                                         *)
(*                                                                         *)
(* userStates is the in-memory map of conversation states, users and       *)
(* entries are the two collections of the store, tasks are the async       *)
(* handlers suspended at an await, and done lists the handlers that        *)
(* returned in the last step.  An update runs its handlers up to their     *)
(* first await in one step; every await that follows is a step.            *)
(*                                                                         *)
(* clock is the time in hours and zone the offset from UTC of the zone the  *)
(* process runs in; an entry is stamped with the clock when it is stored.  *)
(*                                                                         *)
(* SpecLearn, SpecGoal, SpecSearch and SpecQuiz let the handlers of one    *)
(* family of flows interleave; Spec has every flow of every revision with  *)
(* one update handled at a time; SpecUsers has two users at once and       *)
(* SpecPending repeated presses of a category button.  SpecDated,          *)
(* SpecProgress and SpecTop read the statistics of database.js from a      *)
(* store that earlier runs have filled.                                    *)
(***************************************************************************)

VARIABLES build, clock, zone, userStates, users, entries, tasks, done

vars == <<build, clock, zone, userStates, users, entries, tasks, done>>

\* ---------------------------------------------------------------- bounds
MaxTasks == 1      \* handlers suspended at an await at the same time
MaxEntries == 2    \* entries the store accepts beyond the seeded ones
MaxHistory == 2    \* history length after which the question source is exhausted
MaxParallel == 2   \* the same, in the specifications of concurrent handlers
MaxLogged == 3     \* entries the store holds when the statistics are read
MaxToday == 51     \* entries of today when the goal progress is computed
MaxLimit == 2      \* limit passed to getTopCategories
MaxStored == 2     \* entries the store holds when it is queried
MaxHours == 36     \* hours the clock goes on while the store is written

\* ---------------------------------------------------------------- texts
Undefined == <<"undefined">>
Null == "null"

Digits == <<"0", "1", "2", "3", "4", "5", "6", "7", "8", "9">>
IsDigit(c) == \E d \in DOMAIN Digits : Digits[d] = c
DigitVal(c) == (CHOOSE d \in DOMAIN Digits : Digits[d] = c) - 1
IsSpace(c) == c \in {" ", "\t", "\n"}

RECURSIVE SkipSpace(_, _)
SkipSpace(t, i) ==
    IF i <= Len(t) /\ IsSpace(t[i]) THEN SkipSpace(t, i + 1) ELSE i

RECURSIVE DigitRun(_, _, _)
DigitRun(t, i, acc) ==
    IF i <= Len(t) /\ IsDigit(t[i])
    THEN DigitRun(t, i + 1, acc * 10 + DigitVal(t[i]))
    ELSE acc

NaN == [nan |-> TRUE, n |-> 0]

\* parseInt(string): leading blanks, an optional sign, the longest run of digits
parseInt(t) ==
    LET i == SkipSpace(t, 1)
        neg == i <= Len(t) /\ t[i] = "-"
        j == IF i <= Len(t) /\ t[i] \in {"-", "+"} THEN i + 1 ELSE i
    IN  IF j <= Len(t) /\ IsDigit(t[j])
        THEN [nan |-> FALSE, n |-> (IF neg THEN 0 - 1 ELSE 1) * DigitRun(t, j, 0)]
        ELSE NaN

\* JavaScript truthiness of a number: neither NaN nor 0
Truthy(p) == ~p.nan /\ p.n # 0

\* a variant that finds no prefix
startsWithNothing(t, pre) == FALSE
startsWith(t, pre) == Len(t) >= Len(pre) /\ SubSeq(t, 1, Len(pre)) = pre

\* first position at which pat occurs in t, 0 when it does not
IndexOf(t, pat) ==
    LET S == {i \in 1..(Len(t) - Len(pat) + 1) : SubSeq(t, i, i + Len(pat) - 1) = pat}
    IN  IF S = {} THEN 0 ELSE CHOOSE i \in S : \A j \in S : i <= j

RECURSIVE LineEnd(_, _)
LineEnd(t, i) == IF i <= Len(t) /\ t[i] # "\n" THEN LineEnd(t, i + 1) ELSE i - 1

\* match[1] of /<pat>(?: (.+))?/ : the rest of the line after "<pat> "
Group1(t, pat) ==
    LET i == IndexOf(t, pat)
        k == i + Len(pat)
    IN  IF i > 0 /\ k + 1 <= Len(t) /\ t[k] = " " /\ t[k + 1] # "\n"
        THEN SubSeq(t, k + 1, LineEnd(t, k + 1))
        ELSE Undefined

\* action.split('_')[1]
SplitSecond(t) ==
    LET i == IndexOf(t, <<"_">>)
        rest == SubSeq(t, i + 1, Len(t))
        j == IndexOf(rest, <<"_">>)
    IN  IF i = 0 THEN Undefined
        ELSE IF j = 0 THEN rest ELSE SubSeq(rest, 1, j - 1)

\* ---------------------------------------------------------------- commands and buttons
CmdPat ==
    [start |-> <<"/", "s", "t", "a", "r", "t">>,
     help |-> <<"/", "h", "e", "l", "p">>,
     learn |-> <<"/", "l", "e", "a", "r", "n">>,
     quick |-> <<"/", "q", "u", "i", "c", "k">>,
     search |-> <<"/", "s", "e", "a", "r", "c", "h">>,
     stats |-> <<"/", "s", "t", "a", "t", "s">>,
     goals |-> <<"/", "g", "o", "a", "l", "s">>,
     view |-> <<"/", "v", "i", "e", "w">>,
     export |-> <<"/", "e", "x", "p", "o", "r", "t">>,
     summarize |-> <<"/", "s", "u", "m", "m", "a", "r", "i", "z", "e">>,
     quiz |-> <<"/", "q", "u", "i", "z">>,
     stop |-> <<"/", "s", "t", "o", "p">>]

\* the regular expression of bot.onText for command c finds a match in t
Matches(c, t) ==
    IF c = "start"
    THEN IndexOf(t, CmdPat.start) > 0 \/ IndexOf(t, CmdPat.help) > 0
    ELSE IndexOf(t, CmdPat[c]) > 0

\* the bot.onText registrations, in the order the script makes them
Registered ==
    IF build = "inline"
    THEN <<"start", "quiz", "learn", "quick", "search", "stats", "goals",
           "view", "export", "summarize", "stop">>
    ELSE <<"start", "learn", "quick", "search", "stats", "goals", "view",
           "export", "summarize", "quiz", "stop">>

B_view == <<"v", "i", "e", "w", "_">>
B_cat == <<"c", "a", "t", "_">>
B_goal == <<"g", "o", "a", "l", "_">>
B_cat_tech == <<"c", "a", "t", "_", "t", "e", "c", "h">>
B_cat_science == <<"c", "a", "t", "_", "s", "c", "i", "e", "n", "c", "e">>
B_cat_creative == <<"c", "a", "t", "_", "c", "r", "e", "a", "t", "i", "v", "e">>
B_cat_language == <<"c", "a", "t", "_", "l", "a", "n", "g", "u", "a", "g", "e">>
B_cat_business == <<"c", "a", "t", "_", "b", "u", "s", "i", "n", "e", "s", "s">>
B_cat_health == <<"c", "a", "t", "_", "h", "e", "a", "l", "t", "h">>
B_cat_general == <<"c", "a", "t", "_", "g", "e", "n", "e", "r", "a", "l">>
B_cat_skip == <<"c", "a", "t", "_", "s", "k", "i", "p">>
B_goal_custom == <<"g", "o", "a", "l", "_", "c", "u", "s", "t", "o", "m">>
B_goal_3 == <<"g", "o", "a", "l", "_", "3">>
B_quick_learn == <<"q", "u", "i", "c", "k", "_", "l", "e", "a", "r", "n">>
B_show_stats == <<"s", "h", "o", "w", "_", "s", "t", "a", "t", "s">>
B_start_quiz == <<"s", "t", "a", "r", "t", "_", "q", "u", "i", "z">>
B_main_menu == <<"m", "a", "i", "n", "_", "m", "e", "n", "u">>
B_back_to_view == <<"b", "a", "c", "k", "_", "t", "o", "_", "v", "i", "e", "w">>
B_stop_convo == <<"s", "t", "o", "p", "_", "c", "o", "n", "v", "o">>
B_export_data == <<"e", "x", "p", "o", "r", "t", "_", "d", "a", "t", "a">>
B_quiz_pdf == <<"q", "u", "i", "z", "_", "p", "d", "f">>
B_quiz_inline == <<"q", "u", "i", "z", "_", "i", "n", "l", "i", "n", "e">>
B_view_today == <<"v", "i", "e", "w", "_", "t", "o", "d", "a", "y">>

\* the label table of the category buttons
categories ==
    (B_cat_tech :> "Tech/Programming") @@ (B_cat_science :> "Science") @@
    (B_cat_creative :> "Creative/Art") @@ (B_cat_language :> "Language") @@
    (B_cat_business :> "Business") @@ (B_cat_health :> "Health/Fitness") @@
    (B_cat_general :> "General") @@ (B_cat_skip :> Null)

\* categories[action]; a missing key gives undefined, which the default
\* parameter of processLearningEntry turns into null
\* a variant that labels every button General
CategoryOfGeneral(action) == "General"
CategoryOf(action) ==
    IF action \in DOMAIN categories THEN categories[action] ELSE Null

\* ---------------------------------------------------------------- data
Users == {1, 2}
\* the users who write to the bot
Senders == {1}
Builds == {"index", "pdf", "inline"}
Questions == {<<"Q1">>, <<"Q2">>}
QuizMin == 3
TopLimit == 5

\* userStates[chatId] of a user with no entry in the map
Absent ==
    [command |-> "none", pendingContent |-> Undefined, originalContent |-> Undefined,
     history |-> <<>>, lastQuestion |-> Undefined, id |-> 0]

\* userStates[chatId] = { command: c }
NewState(c) == [Absent EXCEPT !.command = c]

NoUser == [exists |-> FALSE, dailyGoal |-> <<>>]

\* the document an upsert inserts: the defaults of UserSchema, joinedAt and
\* lastActiveAt the time of the call; the schema of the diary revision has
\* quizDay and quizTime only
NewUser ==
    IF build = "diary"
    THEN [exists |-> TRUE, quizDay |-> 0, quizTime |-> 20]
    ELSE [exists |-> TRUE, dailyGoal |-> <<>>, quizDay |-> 0, quizTime |-> 20,
          joinedAt |-> clock, lastActiveAt |-> clock, notifications |-> TRUE]

\* a variant that writes the defaults over the record it finds
UpsertAnew(rec) == NewUser
\* User.findOneAndUpdate({ chatId }, { lastActiveAt: new Date(),
\* $setOnInsert: { joinedAt } }, { upsert: true }); the diary revision
\* updates with {}
Upsert(rec) ==
    IF ~rec.exists THEN NewUser
    ELSE IF build = "diary" THEN rec
    ELSE [rec EXCEPT !.lastActiveAt = clock]

\* User.updateOne({ chatId }, { lastActiveAt: new Date() }) at the end of
\* addLearning: no record, no update
Touch(rec) == IF rec.exists THEN [rec EXCEPT !.lastActiveAt = clock] ELSE rec

\* User.updateOne({ chatId }, { dailyGoal: goal }): no record, no update
UpdateGoal(rec, goal) ==
    IF rec.exists THEN [rec EXCEPT !.dailyGoal = <<goal>>] ELSE rec

\* a variant that writes the hour and leaves the day
setQuizTimeOnly(rec, day, time) ==
    IF rec.exists THEN [rec EXCEPT !.quizTime = time] ELSE rec
\* User.updateOne({ chatId }, { quizDay: day, quizTime: time }): no record,
\* no update
setQuizTime(rec, day, time) ==
    IF rec.exists THEN [rec EXCEPT !.quizDay = day, !.quizTime = time] ELSE rec

\* time is counted in hours since the epoch, each a whole number; the
\* run of the bot begins at noon UTC of day 40
Noon == 40 * 24 + 12

\* the offsets from UTC, in hours, of the zones the process may run in
Zones == {-5, 0, 5}

\* new Learning({ chatId, content, category }).save() under
\* { timestamps: true }: createdAt is the time of the call
Learning(chatId, content, category) ==
    [chatId |-> chatId, content |-> content, category |-> category,
     createdAt |-> clock]

\* `💭 Follow-up thought: ${userReply}`
FollowUpThought(userReply) == <<"Follow-up thought: ">> \o userReply

\* `My answer to "${state.lastQuestion}" is: ${userAnswer}`
AnswerTo(lastQuestion, userAnswer) ==
    <<"My answer to ">> \o lastQuestion \o <<" is: ">> \o userAnswer

\* what an earlier run of the bot left in the store
SeedEntries ==
    IF build = "inline"
    THEN [i \in 1..QuizMin |-> Learning(1, <<"s">>, Null)]
    ELSE <<>>

StoreFull == Len(entries) >= Len(SeedEntries) + MaxEntries

\* Learning.find({ chatId, createdAt: ... }) of the past week
LearningsOf(chatId) == SelectSeq(entries, LAMBDA l : l.chatId = chatId)

\* ---------------------------------------------------------------- statistics (database.js)
\* date.toISOString().split('T')[0]: the UTC calendar day of an instant
DateKey(t) == t \div 24

\* new Date() followed by setHours(0, 0, 0, 0): midnight of the current
\* day in the zone of the process
StartOfDay == (((clock + zone) \div 24) * 24) - zone

\* the positions in the collection of the entries of a user
Owned(chatId) == {i \in DOMAIN entries : entries[i].chatId = chatId}

\* countDocuments({ chatId, createdAt: { $gte: startOfDay, $lt: endOfDay } })
getTodayLearningsCount(chatId) ==
    Cardinality({i \in Owned(chatId) :
        entries[i].createdAt >= StartOfDay /\ entries[i].createdAt < StartOfDay + 24})

\* a variant that leaves out an entry made exactly at the given time
CountAfter(chatId, since) ==
    Cardinality({i \in Owned(chatId) : entries[i].createdAt > since})
\* countDocuments({ chatId, createdAt: { $gte: since } })
CountSince(chatId, since) ==
    Cardinality({i \in Owned(chatId) : entries[i].createdAt >= since})

\* the averages are quotients, kept as <<numerator, denominator>>
getUserStats(chatId) ==
    LET weekCount == CountSince(chatId, clock - 7 * 24)
        monthCount == CountSince(chatId, clock - 30 * 24)
    IN  [total |-> Cardinality(Owned(chatId)),
         thisWeek |-> weekCount,
         thisMonth |-> monthCount,
         weeklyAverage |-> <<weekCount, 7>>,
         monthlyAverage |-> <<monthCount, 30>>]

\* the while (true) loop of getUserStreak: dateKey is the UTC day of
\* currentDate, and currentDate goes back one day in every round
RECURSIVE StreakLoop(_, _, _, _)
StreakLoop(learningsByDate, dateKey, today, streak) ==
    IF dateKey \in learningsByDate
    THEN StreakLoop(learningsByDate, dateKey - 1, today, streak + 1)
    ELSE IF streak = 0 /\ dateKey = today
         THEN StreakLoop(learningsByDate, dateKey - 1, today, streak)
         ELSE streak

\* a variant that has no early return for a user without entries
getUserStreakOfAll(chatId) ==
    StreakLoop({DateKey(entries[i].createdAt) : i \in DOMAIN entries},
               DateKey(StartOfDay), DateKey(clock), 0)
getUserStreak(chatId) ==
    LET learningsByDate == {DateKey(entries[i].createdAt) : i \in Owned(chatId)}
    IN  IF Owned(chatId) = {} THEN 0
        ELSE StreakLoop(learningsByDate, DateKey(StartOfDay), DateKey(clock), 0)

\* $match { chatId, category: { $ne: null } }, $group by category with
\* { $sum: 1 }, $project { name, count }
CategoryCounts(chatId) ==
    {[name |-> c,
      count |-> Cardinality({i \in Owned(chatId) : entries[i].category = c})] :
        c \in {entries[i].category : i \in Owned(chatId)} \ {Null}}

\* a variant whose $sort is ascending
SortedAsc(s) == \A i, j \in DOMAIN s : i < j => s[i].count <= s[j].count
\* $sort { count: -1 }
SortedDesc(s) == \A i, j \in DOMAIN s : i < j => s[i].count >= s[j].count

\* the arrays getTopCategories may resolve to: $sort leaves the order of
\* groups with equal counts open, $limit keeps the first `limit` groups
getTopCategories(chatId, limit) ==
    LET G == CategoryCounts(chatId)
        n == Cardinality(G)
        orders == {s \in [1..n -> G] : (\A i, j \in 1..n : s[i] = s[j] => i = j) /\ SortedDesc(s)}
    IN  {SubSeq(s, 1, IF limit < n THEN limit ELSE n) : s \in orders}

\* user?.dailyGoal || null
getUserGoal(chatId) == users[chatId].dailyGoal

\* ---------------------------------------------------------------- numbers
\* A JS number is an IEEE 754 double: a significand of 53 bits and an
\* exponent.  A positive one is [e, f]: the value is (1 + F / 2^52) * 2^e,
\* where the 52 bits F after the leading 1 are the four digits f to the
\* base Limb, the most significant first.  Every operation rounds its
\* exact result to the nearest double, a tie to the even one.
Limb == 8192
Zero == [e |-> 0, f |-> <<>>]

RECURSIVE Pow2(_)
Pow2(k) == IF k = 0 THEN 1 ELSE 2 * Pow2(k - 1)

\* the significand plus one unit in its last place
Successor(e, f) ==
    LET c4 == IF f[4] + 1 = Limb THEN 1 ELSE 0
        c3 == IF f[3] + c4 = Limb THEN 1 ELSE 0
        c2 == IF f[2] + c3 = Limb THEN 1 ELSE 0
        c1 == IF f[1] + c2 = Limb THEN 1 ELSE 0
    IN  [e |-> e + c1,
         f |-> <<(f[1] + c2) % Limb, (f[2] + c3) % Limb, (f[3] + c4) % Limb,
                 (f[4] + 1) % Limb>>]

\* round to nearest, ties to even: twice the dropped part is compared with
\* one unit in the last place kept
RoundToEven(e, f, twice, unit) ==
    IF twice > unit \/ (twice = unit /\ f[4] % 2 = 1)
    THEN Successor(e, f) ELSE [e |-> e, f |-> f]

\* n / d scaled by a power of two into the interval [1, 2)
RECURSIVE Normal(_, _, _)
Normal(n, d, e) ==
    IF n < d THEN Normal(2 * n, d, e - 1)
    ELSE IF n >= 2 * d THEN Normal(n, 2 * d, e + 1)
    ELSE [n |-> n, d |-> d, e |-> e]

\* the double a / b of two integers, a >= 0, b > 0: long division, one
\* digit of the significand at a time
Quotient(a, b) ==
    IF a = 0 THEN Zero
    ELSE LET N == Normal(a, b, 0)
             r0 == N.n - N.d
             r1 == (r0 * Limb) % N.d
             r2 == (r1 * Limb) % N.d
             r3 == (r2 * Limb) % N.d
             r4 == (r3 * Limb) % N.d
         IN  RoundToEven(N.e,
                         <<(r0 * Limb) \div N.d, (r1 * Limb) \div N.d,
                           (r2 * Limb) \div N.d, (r3 * Limb) \div N.d>>,
                         2 * r4, N.d)

\* the double x * k for an integer k in 1..255: digit by digit with a
\* carry, then the product is shifted back to 53 bits and rounded
Product(x, k) ==
    IF x = Zero THEN Zero
    ELSE LET v4 == x.f[4] * k
             v3 == (x.f[3] * k) + (v4 \div Limb)
             v2 == (x.f[2] * k) + (v3 \div Limb)
             v1 == (x.f[1] * k) + (v2 \div Limb)
             top == k + (v1 \div Limb)
             p == <<v1 % Limb, v2 % Limb, v3 % Limb, v4 % Limb>>
             s == CHOOSE j \in 0..8 : Pow2(j) <= top /\ top < Pow2(j + 1)
             low == Pow2(s)
             high == Limb \div low
         IN  RoundToEven(x.e + s,
                         <<((top % low) * high) + (p[1] \div low),
                           ((p[1] % low) * high) + (p[2] \div low),
                           ((p[2] % low) * high) + (p[3] \div low),
                           ((p[3] % low) * high) + (p[4] \div low)>>,
                         2 * (p[4] % low), low)

\* Math.round(x) for 0 <= x < 2^26: the integer nearest to x, a tie goes up
MathRound(x) ==
    IF x = Zero \/ x.e < -1 THEN 0
    ELSE IF x.e = -1 THEN 1
    ELSE IF x.e <= 12
    THEN Pow2(x.e) + (x.f[1] \div Pow2(13 - x.e)) + ((x.f[1] \div Pow2(12 - x.e)) % 2)
    ELSE Pow2(x.e) + (x.f[1] * Pow2(x.e - 13)) + (x.f[2] \div Pow2(26 - x.e))
            + ((x.f[2] \div Pow2(25 - x.e)) % 2)

\* Math.min(100, Math.round((todayCount / goal) * 100))
goalProgress(todayCount, goal) ==
    LET p == MathRound(Product(Quotient(todayCount, goal), 100))
    IN  IF p > 100 THEN 100 ELSE p

\* ---------------------------------------------------------------- handlers
\* One run of a handler: which handler, for whom, on which text or payload,
\* in which flow the user was when it began, where it is suspended, the
\* entries it has added and the goals it has stored so far, and whether
\* another handler of the same user has run since it began.
Handler(h, chatId, text, state, intr) ==
    [h |-> h, chatId |-> chatId, text |-> text, pc |-> "run",
     flow |-> state.command, added |-> <<>>, goals |-> <<>>, intr |-> intr,
     content |-> Undefined, category |-> Null, followUp |-> FALSE,
     ret |-> "none", sid |-> 0]

Busy(ts, chatId) == \E i \in DOMAIN ts : ts[i].chatId = chatId

\* another handler of the same user runs while these are suspended
Disturb(ts, chatId, except) ==
    [i \in DOMAIN ts |->
        IF i # except /\ ts[i].chatId = chatId
        THEN [ts[i] EXCEPT !.intr = TRUE] ELSE ts[i]]

RemoveAt(ts, i) == SubSeq(ts, 1, i - 1) \o SubSeq(ts, i + 1, Len(ts))

\* W = [us, ts, dn]: the state map, the suspended handlers, the handlers
\* that returned in this step
Enter(W, chatId) == [W EXCEPT !.ts = Disturb(W.ts, chatId, 0)]

\* a handler has returned: which, for whom, on what, in which flow, how,
\* and what it wrote
Event(H, out) ==
    [h |-> H.h, chatId |-> H.chatId, text |-> H.text, flow |-> H.flow, out |-> out,
     content |-> H.content, added |-> H.added, goals |-> H.goals, intr |-> H.intr]

Complete(W, H, out) == [W EXCEPT !.dn = Append(@, Event(H, out))]

Suspend(W, H, pc) == [W EXCEPT !.ts = Append(@, [H EXCEPT !.pc = pc])]

\* an id no state object of this user, live or captured, carries
FreshId(us, ts, chatId) ==
    LET used == {us[chatId].id} \cup {ts[i].sid : i \in {k \in DOMAIN ts : ts[k].chatId = chatId}}
    IN  CHOOSE n \in 1..(Cardinality(used) + 1) : n \notin used

\* ---------------------------------------------------------------- inputs
\* every command once, /learn and /search also with an argument
Commands ==
    {CmdPat.start, CmdPat.help, CmdPat.learn, CmdPat.learn \o <<" ", "a">>,
     CmdPat.quick, CmdPat.search, CmdPat.search \o <<" ", "a">>, CmdPat.stats,
     CmdPat.goals, CmdPat.view, CmdPat.export, CmdPat.summarize, CmdPat.quiz,
     CmdPat.stop}

LearnTexts ==
    {<<"a">>, CmdPat.learn, CmdPat.learn \o <<" ", "a">>, CmdPat.quick,
     CmdPat.stop}
LearnPayloads == {B_cat_tech, B_cat_skip, B_quick_learn, B_stop_convo}

\* a message without text (a photo, a sticker) has msg.text undefined
GoalTexts ==
    {<<"7">>, <<"5", "0">>, <<"5", "1">>, <<"0">>, <<"-", "3">>, <<" ", "7", "x">>,
     <<"a">>, Undefined, CmdPat.start, CmdPat.stop}
\* the goal keyboard offers goal_1, goal_2, goal_3, goal_5 and goal_custom
GoalPayloads ==
    {B_goal_3, B_goal_custom} \cup {B_goal \o <<n>> : n \in {"1", "2", "5"}}

\* the last text does not begin with '/' and has a command further on
SearchTexts ==
    {<<"a">>, <<"b">>, Undefined, CmdPat.search, CmdPat.search \o <<" ", "a">>,
     CmdPat.stats, CmdPat.stop, <<"x", " ">> \o CmdPat.search}
SearchPayloads == {B_show_stats, B_stop_convo}

QuizTexts == {<<"a">>, CmdPat.quiz, CmdPat.stop}
QuizPayloads == {B_quiz_inline, B_quiz_pdf, B_stop_convo}

SeqTexts == {<<"7">>} \cup Commands
SeqPayloads ==
    {B_cat_tech, B_goal_3, B_goal_custom, B_quick_learn, B_stop_convo,
     B_quiz_inline, B_show_stats, B_view_today}

\* the traffic of two users whose handlers interleave
BothUsers == {1, 2}
UsersTexts == {<<"7">>, CmdPat.start, CmdPat.quick}
UsersPayloads == {B_goal_3}

Texts ==
    LearnTexts \cup GoalTexts \cup SearchTexts \cup QuizTexts \cup SeqTexts
        \cup UsersTexts

\* ---------------------------------------------------------------- bot.on('message')
\* The cases of the switch on state.command, each up to its first await.
InlineQuiz(W, H, chatId, text) ==
    LET state == W.us[chatId]
        answer == [role |-> "user", content |-> AnswerTo(state.lastQuestion, text)]
    IN  Suspend([W EXCEPT !.us[chatId].history = Append(@, answer)],
                [H EXCEPT !.sid = state.id], "quiz_next")

\* a variant that stores the text at once instead of waiting for the category
WaitingForLearningCommits(W, H, chatId, text) ==
    Suspend(W, [H EXCEPT !.content = text, !.category = Null, !.ret = "learn"], "ple_add")
WaitingForLearning(W, H, chatId, text) ==
    Complete([W EXCEPT !.us[chatId].pendingContent = text], H, "ok")

QuickLearn(W, H, chatId, text) ==
    Suspend(W, [H EXCEPT !.content = text, !.category = Null,
                         !.followUp = (build = "index"), !.ret = "quick"], "ple_add")

Search(W, H, chatId, text) == Suspend(W, H, "search")

\* a variant whose upper limit is off by one
CustomGoalUpTo51(W, H, chatId, text) ==
    LET goalNum == parseInt(text)
    IN  IF Truthy(goalNum) /\ goalNum.n > 0 /\ goalNum.n <= 51
        THEN Suspend(W, H, "set_goal")
        ELSE Complete(W, H, "invalid")
CustomGoal(W, H, chatId, text) ==
    LET goalNum == parseInt(text)
    IN  IF Truthy(goalNum) /\ goalNum.n > 0 /\ goalNum.n <= 50
        THEN Suspend(W, H, "set_goal")
        ELSE Complete(W, H, "invalid")

AiConvo(W, H, chatId, text) == Suspend(W, H, "convo_add")

\* The handler up to its first await.
onMessage(W, chatId, text) ==
    LET state == W.us[chatId]
        H == Handler("message", chatId, text, state, Busy(W.ts, chatId))
        W1 == Enter(W, chatId)
    IN  IF text # Undefined /\ startsWith(text, <<"/">>) THEN Complete(W1, H, "command")
        ELSE IF state = Absent THEN Complete(W1, H, "idle")
        ELSE CASE state.command = "inline_quiz" /\ build = "inline" ->
                    InlineQuiz(W1, H, chatId, text)
               [] state.command = "waiting_for_learning" ->
                    WaitingForLearning(W1, H, chatId, text)
               [] state.command = "quick_learn" -> QuickLearn(W1, H, chatId, text)
               [] state.command = "search" -> Search(W1, H, chatId, text)
               [] state.command = "custom_goal" -> CustomGoal(W1, H, chatId, text)
               [] state.command = "ai_convo" -> AiConvo(W1, H, chatId, text)
               [] OTHER -> Complete(W1, H, "ok")

\* ---------------------------------------------------------------- bot.onText
onStart(W, chatId, text) ==
    Suspend(Enter(W, chatId),
            Handler("start", chatId, text, W.us[chatId], Busy(W.ts, chatId)), "find_user")

onLearn(W, chatId, text) ==
    LET content == Group1(text, CmdPat.learn)
        H == Handler("learn", chatId, text, W.us[chatId], Busy(W.ts, chatId))
        W1 == Enter(W, chatId)
    IN  IF content = Undefined
        THEN Complete([W1 EXCEPT !.us[chatId] = NewState("waiting_for_learning")], H, "ok")
        ELSE Suspend(W1, [H EXCEPT !.content = content, !.category = Null,
                                   !.followUp = TRUE, !.ret = "learn"], "ple_add")

\* a variant that opens the quick entry for every user
onQuickAll(W, chatId, text) ==
    Complete([Enter(W, chatId) EXCEPT !.us = [u \in Users |-> NewState("quick_learn")]],
             Handler("quick", chatId, text, W.us[chatId], Busy(W.ts, chatId)), "ok")

onQuick(W, chatId, text) ==
    Complete([Enter(W, chatId) EXCEPT !.us[chatId] = NewState("quick_learn")],
             Handler("quick", chatId, text, W.us[chatId], Busy(W.ts, chatId)), "ok")

onSearch(W, chatId, text) ==
    LET query == Group1(text, CmdPat.search)
        H == Handler("search", chatId, text, W.us[chatId], Busy(W.ts, chatId))
        W1 == Enter(W, chatId)
    IN  IF query = Undefined
        THEN Complete([W1 EXCEPT !.us[chatId] = NewState("search")], H, "ok")
        ELSE Complete(W1, H, "ok")

\* /stats, /goals, /view, /export, /summarize, /quiz: they read the store,
\* ask the AI and send messages, and touch neither userStates nor the store
onReadOnly(W, c, chatId, text) ==
    Complete(Enter(W, chatId),
             Handler(c, chatId, text, W.us[chatId], Busy(W.ts, chatId)), "ok")

onStop(W, chatId, text) ==
    LET H == Handler("stop", chatId, text, W.us[chatId], Busy(W.ts, chatId))
        W1 == Enter(W, chatId)
    IN  IF W.us[chatId] # Absent
        THEN Complete([W1 EXCEPT !.us[chatId] = Absent], H, "ok")
        ELSE Complete(W1, H, "idle")

onText(W, c, chatId, text) ==
    CASE c = "start" -> onStart(W, chatId, text)
      [] c = "learn" -> onLearn(W, chatId, text)
      [] c = "quick" -> onQuick(W, chatId, text)
      [] c = "search" -> onSearch(W, chatId, text)
      [] c = "stop" -> onStop(W, chatId, text)
      [] OTHER -> onReadOnly(W, c, chatId, text)

\* the registered commands whose expression matches, for every text sent
Matching == [t \in Texts |-> {c \in DOMAIN CmdPat \ {"help"} : Matches(c, t)}]

\* the library runs every registered callback whose expression matches
RECURSIVE RunCallbacks(_, _, _, _)
RunCallbacks(W, k, chatId, text) ==
    IF k > Len(Registered) THEN W
    ELSE RunCallbacks(IF Registered[k] \in Matching[text]
                      THEN onText(W, Registered[k], chatId, text) ELSE W,
                      k + 1, chatId, text)

\* ---------------------------------------------------------------- the quiztime flow
\* The flow of the diary bot that sets the slot of the weekly review, as
\* the specification describes it.  Its state is
\* { command: 'quiztime', step: 1, data: { day } }.
\* a button of the day keyboard, day_0 .. day_6, begins the flow
onQuizDay(W, H, chatId, action) ==
    LET day == parseInt(SplitSecond(action))
    IN  IF startsWith(action, <<"d", "a", "y", "_">>) /\ ~day.nan /\ day.n \in 0..6
        THEN Complete([W EXCEPT !.us[chatId] =
                        [command |-> "quiztime", step |-> 1, data |-> [day |-> day.n]]],
                      H, "ok")
        ELSE Complete(W, H, "ok")

\* the text after the day: an hour from 0 to 23 is committed with
\* await db.setQuizTime(chatId, day, hour); any other text is answered with
\* the prompt again and the state stays as it is
onQuizHour(W, H, chatId, text) ==
    LET hour == parseInt(text)
    IN  IF hour.nan \/ hour.n < 0 \/ hour.n > 23
        THEN Complete(W, H, "invalid")
        ELSE Suspend(W, [H EXCEPT !.content = [day |-> W.us[chatId].data.day,
                                               hour |-> hour.n]],
                     "set_quiz_time")

\* ---------------------------------------------------------------- the log flow
\* The script of the diary bot is not among the sources; its log flow is
\* the one the specification describes.  The state of the flow is
\* { command: 'log', step, data }.
\* /log begins the flow at step 1 with nothing collected
onLog(W, chatId, text) ==
    Complete([Enter(W, chatId) EXCEPT !.us[chatId] =
                [command |-> "log", step |-> 1,
                 data |-> [work |-> Undefined, learn |-> Undefined,
                           blockers |-> Undefined]]],
             Handler("log", chatId, text, W.us[chatId], Busy(W.ts, chatId)), "ok")

\* a text of the flow: step 1 takes the work and step 2 what was learned,
\* step 3 takes the blockers and commits with await db.addLog(chatId, data);
\* a text that begins with '/' and a text of a user with no state are no input
onLogMessage(W, chatId, text) ==
    LET state == W.us[chatId]
        H == Handler("message", chatId, text, state, Busy(W.ts, chatId))
        W1 == Enter(W, chatId)
    IN  IF text = Undefined \/ startsWith(text, <<"/">>) THEN Complete(W1, H, "command")
        ELSE IF state.command = "quiztime" THEN onQuizHour(W1, H, chatId, text)
        ELSE IF state.command # "log" THEN Complete(W1, H, "idle")
        ELSE CASE state.step = 1 ->
                    Complete([W1 EXCEPT !.us[chatId].data.work = text,
                                        !.us[chatId].step = 2], H, "ok")
               [] state.step = 2 ->
                    Complete([W1 EXCEPT !.us[chatId].data.learn = text,
                                        !.us[chatId].step = 3], H, "ok")
               [] OTHER ->
                    Suspend([W1 EXCEPT !.us[chatId].data.blockers = text],
                            [H EXCEPT !.content = [state.data EXCEPT !.blockers = text]],
                            "add_log")

\* one update with a message: the 'message' event first, then the text callbacks
ProcessUpdate(W, chatId, text) ==
    IF build = "diary"
    THEN IF text = <<"/", "l", "o", "g">>
         THEN onLog(onLogMessage(W, chatId, text), chatId, text)
         ELSE onLogMessage(W, chatId, text)
    ELSE LET W1 == onMessage(W, chatId, text)
         IN  IF text = Undefined THEN W1 ELSE RunCallbacks(W1, 1, chatId, text)

\* ---------------------------------------------------------------- bot.on('callback_query')
onCategory(W, H, chatId, action) ==
    IF W.us[chatId] # Absent /\ W.us[chatId].pendingContent # Undefined
       /\ W.us[chatId].pendingContent # <<>>
    THEN Suspend(W, [H EXCEPT !.content = W.us[chatId].pendingContent,
                              !.category = CategoryOf(action),
                              !.followUp = TRUE, !.ret = "cat"], "ple_add")
    ELSE Complete(W, H, "ok")

onGoal(W, H, chatId, action) ==
    LET goalValue == IF action = B_goal_custom THEN NaN ELSE parseInt(SplitSecond(action))
    IN  IF Truthy(goalValue)
        THEN Suspend(W, H, "set_goal")
        ELSE Complete([W EXCEPT !.us[chatId] = NewState("custom_goal")], H, "ok")

onQuickButton(W, H, chatId) ==
    Complete([W EXCEPT !.us[chatId] = NewState("quick_learn")], H, "ok")

onStopConvo(W, H, chatId) ==
    Complete([W EXCEPT !.us[chatId] = Absent], H, "ok")

onCallbackQuery(W, chatId, action) ==
    LET H == Handler("callback_query", chatId, action, W.us[chatId], Busy(W.ts, chatId))
        W1 == Enter(W, chatId)
    IN  IF build = "diary" THEN onQuizDay(W1, H, chatId, action)
        ELSE IF build = "inline"
        THEN CASE action = B_quiz_pdf -> Complete(W1, H, "ok")
               [] action = B_quiz_inline -> Suspend(W1, H, "quiz_read")
               [] startsWith(action, B_view) -> Complete(W1, H, "ok")
               [] startsWith(action, B_cat) -> Complete(W1, H, "ok")
               [] startsWith(action, B_goal) -> Complete(W1, H, "ok")
               [] action = B_quick_learn -> onQuickButton(W1, H, chatId)
               [] action = B_stop_convo -> onStopConvo(W1, H, chatId)
               [] OTHER -> Complete(W1, H, "ok")
        ELSE CASE startsWith(action, B_view) -> Complete(W1, H, "ok")
               [] startsWith(action, B_cat) -> onCategory(W1, H, chatId, action)
               [] startsWith(action, B_goal) -> onGoal(W1, H, chatId, action)
               [] action = B_quick_learn -> onQuickButton(W1, H, chatId)
               [] action = B_stop_convo /\ build = "pdf" -> onStopConvo(W1, H, chatId)
               [] OTHER -> Complete(W1, H, "ok")

\* ---------------------------------------------------------------- steps
\* the bot has just been started as one of the revisions in B
Boot(B) ==
    /\ build \in B
    /\ clock = Noon     \* the flows read neither the clock nor the zone
    /\ zone = 0
    /\ userStates = [u \in Users |-> Absent]
    /\ users = [u \in Users |-> NoUser]
    /\ entries = SeedEntries
    /\ tasks = <<>>
    /\ done = <<>>

\* the transport delivers a message of a user; at most n handlers are
\* suspended afterwards
ReceiveUpTo(chatId, text, n) ==
    \E W \in {ProcessUpdate([us |-> userStates, ts |-> tasks, dn |-> <<>>], chatId, text)} :
        /\ Len(W.ts) <= n
        /\ userStates' = W.us
        /\ tasks' = W.ts
        /\ done' = W.dn
        /\ UNCHANGED <<build, clock, zone, users, entries>>

Receive(chatId, text) == ReceiveUpTo(chatId, text, MaxTasks)

\* the transport delivers a button press of a user
PressUpTo(chatId, action, n) ==
    \E W \in {onCallbackQuery([us |-> userStates, ts |-> tasks, dn |-> <<>>], chatId, action)} :
        /\ Len(W.ts) <= n
        /\ userStates' = W.us
        /\ tasks' = W.ts
        /\ done' = W.dn
        /\ UNCHANGED <<build, clock, zone, users, entries>>

Press(chatId, action) == PressUpTo(chatId, action, MaxTasks)

\* the handler in slot i returns, leaving the state map as us
Return(i, H, us, out) ==
    /\ userStates' = us
    /\ tasks' = RemoveAt(Disturb(tasks, H.chatId, i), i)
    /\ done' = <<Event(H, out)>>

\* the handler in slot i reaches its next await
Await(i, H, pc) ==
    /\ tasks' = [Disturb(tasks, H.chatId, i) EXCEPT ![i] = [H EXCEPT !.pc = pc]]
    /\ done' = <<>>

\* a variant whose catch clauses leave userStates alone
CatchKeeps(H, us) == us
\* what the catch clause around the handler's body leaves in userStates:
\* the message handler deletes the user's state, the button handler only
\* answers the query, a command handler has no catch clause
Catch(H, us) ==
    IF H.h = "message" THEN [us EXCEPT ![H.chatId] = Absent] ELSE us

\* a variant in which the callers do nothing after the entry
AfterEntryKeeps(H, us) == us
\* the caller's statements after `await processLearningEntry(...)`
AfterEntry(H, us) ==
    CASE H.ret = "quick" -> [us EXCEPT ![H.chatId] = Absent]
      [] H.ret = "cat" /\ build = "index" ->
            [us EXCEPT ![H.chatId].pendingContent = Undefined]
      [] H.ret = "cat" /\ build # "index" -> [us EXCEPT ![H.chatId] = Absent]
      [] OTHER -> us

\* userStates[chatId] = { command: 'ai_convo', originalContent: content }
StartConvo(H, us) ==
    IF H.followUp
    THEN [us EXCEPT ![H.chatId] =
            [NewState("ai_convo") EXCEPT !.originalContent = H.content]]
    ELSE us

\* processLearningEntry: await db.addLearning(chatId, content, category)
AddLearning(i) ==
    LET H == tasks[i]
        l == Learning(H.chatId, H.content, H.category)
    IN  /\ H.pc = "ple_add"
        /\ \/ /\ H.content # Undefined
              /\ ~StoreFull
              /\ entries' = Append(entries, l)
              /\ users' = [users EXCEPT ![H.chatId] = Touch(@)]
              /\ Await(i, [H EXCEPT !.added = Append(@, l)], "ple_rest")
              /\ UNCHANGED <<build, clock, zone, userStates>>
           \/ /\ Return(i, H, Catch(H, userStates), "error")
              /\ UNCHANGED <<build, clock, zone, users, entries>>

\* processLearningEntry after the entry is stored: the three reads, the
\* progress message, the follow-up question; then the caller goes on
FollowUp(i) ==
    LET H == tasks[i]
    IN  /\ H.pc = "ple_rest"
        /\ \/ Return(i, H, AfterEntry(H, StartConvo(H, userStates)), "ok")
           \/ Return(i, H, Catch(H, userStates), "error")
        /\ UNCHANGED <<build, clock, zone, users, entries>>

\* case 'search': await db.searchLearnings, then delete userStates[chatId]
SearchDone(i) ==
    LET H == tasks[i]
    IN  /\ H.pc = "search"
        /\ \/ Return(i, H, [userStates EXCEPT ![H.chatId] = Absent], "ok")
           \/ Return(i, H, Catch(H, userStates), "error")
        /\ UNCHANGED <<build, clock, zone, users, entries>>

\* the goal a handler is about to store
GoalOf(H) ==
    IF H.h = "message" THEN parseInt(H.text).n ELSE parseInt(SplitSecond(H.text)).n

\* await db.setUserGoal(chatId, goal) in case 'custom_goal' and under goal_<n>
SetGoal(i) ==
    LET H == tasks[i]
        H2 == [H EXCEPT !.goals = Append(@, GoalOf(H))]
    IN  /\ H.pc = "set_goal"
        /\ \/ /\ users' = [users EXCEPT ![H.chatId] = UpdateGoal(@, GoalOf(H))]
              /\ Return(i, H2, IF H.h = "message"
                               THEN [userStates EXCEPT ![H.chatId] = Absent]
                               ELSE userStates, "ok")
           \/ /\ Return(i, H, Catch(H, userStates), "error")
              /\ UNCHANGED users
        /\ UNCHANGED <<build, clock, zone, entries>>

\* case 'ai_convo': await db.addLearning(chatId, `Follow-up thought: ...`)
ConvoAdd(i) ==
    LET H == tasks[i]
        l == Learning(H.chatId, FollowUpThought(H.text), Null)
    IN  /\ H.pc = "convo_add"
        /\ \/ /\ ~StoreFull
              /\ entries' = Append(entries, l)
              /\ users' = [users EXCEPT ![H.chatId] = Touch(@)]
              /\ Await(i, [H EXCEPT !.added = Append(@, l)], "convo_ask")
              /\ UNCHANGED <<build, clock, zone, userStates>>
           \/ /\ Return(i, H, Catch(H, userStates), "error")
              /\ UNCHANGED <<build, clock, zone, users, entries>>

\* a variant in which the reply ends the conversation
ConvoAskEnds(i) ==
    LET H == tasks[i]
    IN  /\ H.pc = "convo_ask"
        /\ Return(i, H, [userStates EXCEPT ![H.chatId] = Absent], "ok")
        /\ UNCHANGED <<build, clock, zone, users, entries>>
\* case 'ai_convo': await ai.generateFollowUpQuestion(userReply), then break
ConvoAsk(i) ==
    LET H == tasks[i]
    IN  /\ H.pc = "convo_ask"
        /\ \/ Return(i, H, userStates, "ok")
           \/ Return(i, H, Catch(H, userStates), "error")
        /\ UNCHANGED <<build, clock, zone, users, entries>>

\* /start: await db.findOrCreateUser(chatId), then the reads and the welcome
FindUser(i) ==
    LET H == tasks[i]
    IN  /\ H.pc = "find_user"
        /\ \/ /\ users' = [users EXCEPT ![H.chatId] = Upsert(@)]
              /\ Return(i, H, userStates, "ok")
           \/ /\ Return(i, H, Catch(H, userStates), "error")
              /\ UNCHANGED users
        /\ UNCHANGED <<build, clock, zone, entries>>

\* the captured state object of the handler is still the user's state
Live(H) ==
    userStates[H.chatId].command = "inline_quiz" /\ userStates[H.chatId].id = H.sid

\* a variant that forgets to record the question in the history
AskedUnrecorded(state, nextQuestion) == [state EXCEPT !.lastQuestion = nextQuestion]
\* state.lastQuestion = nextQuestion; state.history.push({ role: 'assistant', ... })
Asked(state, nextQuestion) ==
    [state EXCEPT !.lastQuestion = nextQuestion,
                  !.history = Append(@, [role |-> "assistant", content |-> nextQuestion])]

\* case 'inline_quiz': await ai.getNextQuizQuestion(state.learnings, history)
QuizNext(i) ==
    LET H == tasks[i]
        u == H.chatId
    IN  /\ H.pc = "quiz_next"
        /\ \/ \E q \in Questions :
                /\ Live(H) => Len(userStates[u].history) < MaxHistory
                /\ Return(i, H,
                          IF Live(H)
                          THEN [userStates EXCEPT ![u] = Asked(@, q)]
                          ELSE userStates, "ok")
           \/ Return(i, H, [userStates EXCEPT ![u] = Absent], "exhausted")
           \/ Return(i, H, Catch(H, userStates), "error")
        /\ UNCHANGED <<build, clock, zone, users, entries>>

\* startInlineQuiz: await db.getLearningsForDateRange, then the state is set
QuizRead(i) ==
    LET H == tasks[i]
        u == H.chatId
    IN  /\ H.pc = "quiz_read"
        /\ \/ /\ Len(LearningsOf(u)) < QuizMin
              /\ Return(i, H, userStates, "few")
           \/ /\ Len(LearningsOf(u)) >= QuizMin
              /\ userStates' = [userStates EXCEPT ![u] =
                    [NewState("inline_quiz") EXCEPT !.id = FreshId(userStates, tasks, u)]]
              /\ Await(i, H, "quiz_first")
           \/ Return(i, H, Catch(H, userStates), "error")
        /\ UNCHANGED <<build, clock, zone, users, entries>>

\* startInlineQuiz: await ai.getNextQuizQuestion(learnings, [])
QuizFirst(i) ==
    LET H == tasks[i]
        u == H.chatId
    IN  /\ H.pc = "quiz_first"
        /\ \/ \E q \in Questions :
                IF userStates[u] = Absent
                THEN Return(i, H, Catch(H, userStates), "error")
                ELSE Return(i, H, [userStates EXCEPT ![u].lastQuestion = q], "ok")
           \/ Return(i, H, [userStates EXCEPT ![u] = Absent], "exhausted")
           \/ Return(i, H, Catch(H, userStates), "error")
        /\ UNCHANGED <<build, clock, zone, users, entries>>

\* showUserStats: the five reads and what the message is composed of; the
\* progress is there only if (goal)
ShowUserStats(chatId) ==
    \E topCategories \in getTopCategories(chatId, TopLimit) :
        /\ done' = <<[h |-> "show_stats", chatId |-> chatId,
                      stats |-> getUserStats(chatId),
                      streak |-> getUserStreak(chatId),
                      todayCount |-> getTodayLearningsCount(chatId),
                      progress |-> IF getUserGoal(chatId) # <<>>
                                   THEN <<goalProgress(getTodayLearningsCount(chatId),
                                                       getUserGoal(chatId)[1])>>
                                   ELSE <<>>,
                      topCategories |-> topCategories]>>
        /\ UNCHANGED <<build, clock, zone, userStates, users, entries, tasks>>

\* a variant that celebrates only a goal that is exceeded
ProgressMessageBeyond(chatId) ==
    LET todayCount == getTodayLearningsCount(chatId)
        userGoal == getUserGoal(chatId)
    IN  /\ done' = <<[h |-> "progress_message", chatId |-> chatId,
                      todayCount |-> todayCount,
                      progress |-> IF userGoal # <<>>
                                   THEN <<goalProgress(todayCount, userGoal[1])>>
                                   ELSE <<>>,
                      achieved |-> userGoal # <<>> /\ todayCount > userGoal[1]]>>
        /\ UNCHANGED <<build, clock, zone, userStates, users, entries, tasks>>
\* processLearningEntry after the entry is stored: the reads and the
\* message 'Learning saved!', with the progress if (userGoal) and the line
\* 'Daily goal achieved!' if (todayCount >= userGoal)
ProgressMessage(chatId) ==
    LET todayCount == getTodayLearningsCount(chatId)
        userGoal == getUserGoal(chatId)
    IN  /\ done' = <<[h |-> "progress_message", chatId |-> chatId,
                      todayCount |-> todayCount,
                      progress |-> IF userGoal # <<>>
                                   THEN <<goalProgress(todayCount, userGoal[1])>>
                                   ELSE <<>>,
                      achieved |-> userGoal # <<>> /\ todayCount >= userGoal[1]]>>
        /\ UNCHANGED <<build, clock, zone, userStates, users, entries, tasks>>

\* a call of getTopCategories with a limit of its own
TopCategories(chatId, limit) ==
    \E top \in getTopCategories(chatId, limit) :
        /\ done' = <<[h |-> "top_categories", chatId |-> chatId, limit |-> limit,
                      top |-> top]>>
        /\ UNCHANGED <<build, clock, zone, userStates, users, entries, tasks>>

\* the collection as earlier runs left it: up to n entries of the users,
\* each of a kind in K and made some hours in Ages before now
Logged(n, K, ages) ==
    UNION {[1..k -> [chatId : Users, content : {<<"a">>}, category : K,
                     createdAt : {clock - h : h \in ages}]] : k \in 0..n}

\* the bot is up, nothing is in progress
Quiet(B) ==
    /\ build \in B
    /\ userStates = [u \in Users |-> Absent]
    /\ tasks = <<>>
    /\ done = <<>>

\* streak and counts: entries of today, of the days before and around the
\* start of the past week, at 02:00, 12:00 or 22:00 UTC, in any zone
Ages == {1, 25, 49, 167, 168, 169}
InitDated ==
    /\ Quiet({"index"})
    /\ clock \in {Noon - 10, Noon, Noon + 10}
    /\ zone \in Zones
    /\ users = [u \in Users |-> NoUser]
    /\ entries \in Logged(MaxLogged, {Null}, Ages)
NextDated == \E u \in Users : ShowUserStats(u)
SpecDated == InitDated /\ [][NextDated]_vars

\* goal progress: a user with a goal, or none, and some entries of today
InitProgress ==
    /\ Quiet({"index"})
    /\ clock = Noon
    /\ zone \in Zones
    /\ \E goal \in {<<>>} \cup {<<g>> : g \in 1..50} :
            users = [u \in Users |->
                        IF u \in Senders THEN [NewUser EXCEPT !.dailyGoal = goal]
                        ELSE NoUser]
    /\ \E n \in 0..MaxToday : entries = [i \in 1..n |-> Learning(1, <<"a">>, Null)]
NextProgress ==
    \/ \E u \in Users : ShowUserStats(u)
    \/ \E u \in Users : ProgressMessage(u)
SpecProgress == InitProgress /\ [][NextProgress]_vars

\* top categories: entries with and without a category
InitTop ==
    /\ Quiet({"index"})
    /\ clock = Noon
    /\ zone = 0
    /\ users = [u \in Users |-> NoUser]
    /\ entries \in Logged(MaxLogged, {Null, "Science", "Language", "General"}, {1})
NextTop == \E u \in Users, limit \in 1..MaxLimit : TopCategories(u, limit)
SpecTop == InitTop /\ [][NextTop]_vars

\* the learning flows of the revisions that implement the category buttons
InitLearn == Boot({"index", "pdf"})
NextLearn ==
    \/ \E u \in Senders, t \in LearnTexts : Receive(u, t)
    \/ \E u \in Senders, a \in LearnPayloads : Press(u, a)
    \/ \E i \in DOMAIN tasks : AddLearning(i)
    \/ \E i \in DOMAIN tasks : FollowUp(i)
    \/ \E i \in DOMAIN tasks : ConvoAdd(i)
    \/ \E i \in DOMAIN tasks : ConvoAsk(i)
SpecLearn == InitLearn /\ [][NextLearn]_vars

\* the goal flow of the revisions that implement the goal buttons
InitGoal == Boot({"index", "pdf"})
NextGoal ==
    \/ \E u \in Senders, t \in GoalTexts : Receive(u, t)
    \/ \E u \in Senders, a \in GoalPayloads : Press(u, a)
    \/ \E i \in DOMAIN tasks : SetGoal(i)
    \/ \E i \in DOMAIN tasks : FindUser(i)
SpecGoal == InitGoal /\ [][NextGoal]_vars

\* the search flow, which every revision has
InitSearch == Boot(Builds)
NextSearch ==
    \/ \E u \in Senders, t \in SearchTexts : Receive(u, t)
    \/ \E u \in Senders, a \in SearchPayloads : Press(u, a)
    \/ \E i \in DOMAIN tasks : SearchDone(i)
SpecSearch == InitSearch /\ [][NextSearch]_vars

\* the interactive quiz of the revision that has it
InitQuiz == Boot({"inline"})
NextQuiz ==
    \/ \E u \in Senders, t \in QuizTexts : Receive(u, t)
    \/ \E u \in Senders, a \in QuizPayloads : Press(u, a)
    \/ \E i \in DOMAIN tasks : QuizRead(i)
    \/ \E i \in DOMAIN tasks : QuizFirst(i)
    \/ \E i \in DOMAIN tasks : QuizNext(i)
SpecQuiz == InitQuiz /\ [][NextQuiz]_vars

\* the interactive quiz when the user answers early: a text may arrive
\* while startInlineQuiz is still awaiting the first question
NextAnswer ==
    \/ \E u \in Senders : Press(u, B_quiz_inline)
    \/ \E u \in Senders : ReceiveUpTo(u, <<"a">>, MaxParallel)
    \/ \E i \in DOMAIN tasks : QuizRead(i)
    \/ \E i \in DOMAIN tasks : QuizFirst(i)
    \/ \E i \in DOMAIN tasks : QuizNext(i)
SpecAnswer == InitQuiz /\ [][NextAnswer]_vars

\* two users at once: quick entries, goals and user records (the revisions
\* differ in these handlers only in the follow-up question, which is not used)
InitUsers == Boot({"index"})
NextUsers ==
    \/ \E u \in BothUsers, t \in UsersTexts : ReceiveUpTo(u, t, MaxParallel)
    \/ \E u \in BothUsers, a \in UsersPayloads : PressUpTo(u, a, MaxParallel)
    \/ \E i \in DOMAIN tasks : AddLearning(i)
    \/ \E i \in DOMAIN tasks : FollowUp(i)
    \/ \E i \in DOMAIN tasks : SetGoal(i)
    \/ \E i \in DOMAIN tasks : FindUser(i)
SpecUsers == InitUsers /\ [][NextUsers]_vars

\* a user who sent /learn and then the text a: the content is pending and
\* the category buttons are on the screen; only the buttons are pressed
PendingPayloads == {B_cat_tech, B_cat_skip}
InitPending ==
    /\ build \in {"index", "pdf"}
    /\ clock = Noon
    /\ zone = 0
    /\ userStates = [u \in Users |->
            IF u \in Senders
            THEN [NewState("waiting_for_learning") EXCEPT !.pendingContent = <<"a">>]
            ELSE Absent]
    /\ users = [u \in Users |-> NoUser]
    /\ entries = <<>>
    /\ tasks = <<>>
    /\ done = <<>>
NextPending ==
    \/ \E u \in Senders, a \in PendingPayloads : PressUpTo(u, a, MaxParallel)
    \/ \E i \in DOMAIN tasks : AddLearning(i)
    \/ \E i \in DOMAIN tasks : FollowUp(i)
SpecPending == InitPending /\ [][NextPending]_vars

\* every flow of every revision, one update at a time: the next update is
\* delivered only when no handler is suspended
Init == Boot(Builds)
Next ==
    \/ tasks = <<>> /\ \E u \in Senders, t \in SeqTexts : Receive(u, t)
    \/ tasks = <<>> /\ \E u \in Senders, a \in SeqPayloads : Press(u, a)
    \/ \E i \in DOMAIN tasks : AddLearning(i)
    \/ \E i \in DOMAIN tasks : FollowUp(i)
    \/ \E i \in DOMAIN tasks : SearchDone(i)
    \/ \E i \in DOMAIN tasks : SetGoal(i)
    \/ \E i \in DOMAIN tasks : ConvoAdd(i)
    \/ \E i \in DOMAIN tasks : ConvoAsk(i)
    \/ \E i \in DOMAIN tasks : FindUser(i)
    \/ \E i \in DOMAIN tasks : QuizRead(i)
    \/ \E i \in DOMAIN tasks : QuizFirst(i)
    \/ \E i \in DOMAIN tasks : QuizNext(i)
Spec == Init /\ [][Next]_vars

\* ---------------------------------------------------------------- queries (database.js)
\* a variant that asks for no setting
getInactiveUsersOfAnySetting ==
    {u \in Users : users[u].exists
        /\ \A i \in Owned(u) : entries[i].createdAt < StartOfDay}
\* Learning.distinct('chatId', { createdAt: { $gte: startOfDay } }), then
\* User.find({ chatId: { $nin: activeUserIds }, 'settings.notifications': true })
getInactiveUsers ==
    LET activeUserIds ==
            {entries[i].chatId : i \in {k \in DOMAIN entries :
                                            entries[k].createdAt >= StartOfDay}}
    IN  {u \in Users : users[u].exists /\ u \notin activeUserIds
                                       /\ users[u].notifications}

\* x / 0 for a number x > 0; 0 / 0 is NaN.  Math.round and a division by
\* 10 leave both as they are
Infinity == [nan |-> FALSE, n |-> "Infinity"]

\* the three countDocuments and
\* Math.round(totalLearnings / totalUsers * 10) / 10
getGlobalStats ==
    LET totalUsers == Cardinality({u \in Users : users[u].exists})
        totalLearnings == Len(entries)
    IN  [totalUsers |-> totalUsers,
         totalLearnings |-> totalLearnings,
         activeUsers |-> Cardinality({u \in Users : users[u].exists
                            /\ users[u].lastActiveAt >= clock - (7 * 24)}),
         averageLearningsPerUser |->
            IF totalUsers = 0
            THEN IF totalLearnings = 0 THEN NaN ELSE Infinity
            ELSE Quotient(MathRound(Product(Quotient(totalLearnings, totalUsers), 10)),
                          10)]

\* the arrays Learning.find({ chatId, createdAt: { $gte: startDate,
\* $lt: endDate } }).sort({ createdAt: 'desc' }) may resolve to: the sort
\* leaves the order of entries made at the same time open
getLearningsForDateRange(chatId, startDate, endDate) ==
    LET S == {i \in Owned(chatId) : entries[i].createdAt >= startDate
                                    /\ entries[i].createdAt < endDate}
        n == Cardinality(S)
        orders == {q \in [1..n -> S] :
                    /\ \A i, j \in 1..n : q[i] = q[j] => i = j
                    /\ \A i, j \in 1..n :
                            i < j => entries[q[i]].createdAt >= entries[q[j]].createdAt}
    IN  {[k \in 1..n |-> entries[q[k]]] : q \in orders}

\* a call of getInactiveUsers
InactiveUsers ==
    /\ done' = <<[h |-> "inactive_users", result |-> getInactiveUsers]>>
    /\ UNCHANGED <<build, clock, zone, userStates, users, entries, tasks>>

\* a call of getGlobalStats
GlobalStats ==
    /\ done' = <<[h |-> "global_stats", stats |-> getGlobalStats]>>
    /\ UNCHANGED <<build, clock, zone, userStates, users, entries, tasks>>

\* a call of getLearningsForDateRange with the arguments of its callers:
\* from subDays(now, 7) or startOfDay(now), to now or to a day ago
DateRange(chatId) ==
    \E startDate \in {clock - (7 * 24), StartOfDay}, endDate \in {clock, clock - 24} :
        \E result \in getLearningsForDateRange(chatId, startDate, endDate) :
            /\ done' = <<[h |-> "date_range", chatId |-> chatId,
                          startDate |-> startDate, endDate |-> endDate,
                          result |-> result]>>
            /\ UNCHANGED <<build, clock, zone, userStates, users, entries, tasks>>

\* the store as earlier runs left it: users who sent /start some hours ago,
\* with notifications on or switched off through updateUserSettings, and
\* entries of theirs and of users without a record, made now, around the
\* start of the day, a day and a week ago
InitQuery ==
    /\ Quiet({"index"})
    /\ clock = Noon
    /\ zone \in Zones
    /\ users \in [Users -> {NoUser, [NewUser EXCEPT !.notifications = FALSE],
                            [NewUser EXCEPT !.joinedAt = clock - 8,
                                            !.lastActiveAt = clock - 8]}]
    /\ entries \in Logged(MaxStored, {Null}, {0, 7, 8, 24, 168, 169})
NextQuery ==
    \/ InactiveUsers
    \/ GlobalStats
    \/ \E u \in Users : DateRange(u)
SpecQuery == InitQuery /\ [][NextQuery]_vars

\* ---------------------------------------------------------------- writes (database.js)
\* a call of findOrCreateUser
FindOrCreateUser(chatId) ==
    /\ users' = [users EXCEPT ![chatId] = Upsert(@)]
    /\ done' = <<[h |-> "find_or_create_user", chatId |-> chatId]>>
    /\ UNCHANGED <<build, clock, zone, userStates, entries, tasks>>

\* a call of setQuizTime
SetQuizTime(chatId, day, time) ==
    /\ users' = [users EXCEPT ![chatId] = setQuizTime(@, day, time)]
    /\ done' = <<[h |-> "set_quiz_time", chatId |-> chatId]>>
    /\ UNCHANGED <<build, clock, zone, userStates, entries, tasks>>

\* a call of addLearning: Learning.create, then the update of lastActiveAt
StoreLearning(chatId, content, category) ==
    /\ build # "diary"
    /\ Len(entries) < MaxStored
    /\ entries' = Append(entries, Learning(chatId, content, category))
    /\ users' = [users EXCEPT ![chatId] = Touch(@)]
    /\ done' = <<[h |-> "add_learning", chatId |-> chatId]>>
    /\ UNCHANGED <<build, clock, zone, userStates, tasks>>

\* a variant that also deletes the entries made exactly at the cutoff
CleanupUpToCutoff(daysToKeep) ==
    /\ build # "diary"
    /\ entries' = SelectSeq(entries, LAMBDA l : l.createdAt > clock - (24 * daysToKeep))
    /\ done' = <<[h |-> "cleanup", daysToKeep |-> daysToKeep,
                  deletedCount |-> Len(entries) - Len(entries')]>>
    /\ UNCHANGED <<build, clock, zone, userStates, users, tasks>>
\* a call of cleanupOldData: cutoffDate is now with setDate(getDate() -
\* daysToKeep), Learning.deleteMany({ createdAt: { $lt: cutoffDate } })
CleanupOldData(daysToKeep) ==
    /\ build # "diary"
    /\ entries' = SelectSeq(entries, LAMBDA l : ~(l.createdAt < clock - (24 * daysToKeep)))
    /\ done' = <<[h |-> "cleanup", daysToKeep |-> daysToKeep,
                  deletedCount |-> Len(entries) - Len(entries')]>>
    /\ UNCHANGED <<build, clock, zone, userStates, users, tasks>>

\* half a day passes: new Date() is read again at every call
Tick ==
    /\ clock + 12 <= Noon + MaxHours
    /\ clock' = clock + 12
    /\ done' = <<>>
    /\ UNCHANGED <<build, zone, userStates, users, entries, tasks>>

\* the store of the learning bot or of the diary bot; user 1 is new or, in
\* the learning bot, has a record with a goal, a quiz slot and notifications
\* switched off
InitStore ==
    /\ Quiet({"index", "diary"})
    /\ clock = Noon
    /\ zone = 0
    /\ \E rec \in {NoUser} \cup
                  (IF build = "diary" THEN {}
                   ELSE {[NewUser EXCEPT !.dailyGoal = <<3>>, !.notifications = FALSE,
                                         !.joinedAt = clock - 8,
                                         !.lastActiveAt = clock - 8]}) :
            users = [u \in Users |-> IF u \in Senders THEN rec ELSE NoUser]
    /\ entries = <<>>
NextStore ==
    \/ \E u \in Senders : FindOrCreateUser(u)
    \/ \E u \in Senders : SetQuizTime(u, 3, 9)
    \/ \E u \in Users : StoreLearning(u, <<"a">>, Null)
    \/ \E daysToKeep \in {1, 365} : CleanupOldData(daysToKeep)
    \/ Tick
SpecStore == InitStore /\ [][NextStore]_vars

\* ---------------------------------------------------------------- cron.schedule('0 20 * * 0')
\* the scheduler fires at 20:00 of a Sunday in the zone of the process
\* (day 0 of the epoch is a Thursday); the job runs up to its first await
CronTick ==
    /\ tasks = <<>>
    /\ (((clock + zone) \div 24) + 4) % 7 = 0
    /\ (clock + zone) % 24 = 20
    /\ tasks' = <<[h |-> "cron", pc |-> "get_all_users", queue |-> <<>>,
                   sent |-> {}, failed |-> 0]>>
    /\ done' = <<>>
    /\ UNCHANGED <<build, clock, zone, userStates, users, entries>>

\* const users = await db.getAllUsers(): the records in some order, or a
\* rejection, which ends the job
JobUsers ==
    /\ tasks # <<>> /\ tasks[1].pc = "get_all_users"
    /\ \/ \E queue \in {q \in UNION {[1..n -> Users] : n \in 0..Cardinality(Users)} :
                            /\ \A i, j \in DOMAIN q : q[i] = q[j] => i = j
                            /\ {q[i] : i \in DOMAIN q} = {u \in Users : users[u].exists}} :
                IF queue = <<>>
                THEN /\ tasks' = <<>>
                     /\ done' = <<[tasks[1] EXCEPT !.pc = "end"]>>
                ELSE /\ tasks' = <<[tasks[1] EXCEPT !.pc = "range", !.queue = queue]>>
                     /\ done' = <<>>
       \/ /\ tasks' = <<>>
          /\ done' = <<[tasks[1] EXCEPT !.pc = "rejected"]>>
    /\ UNCHANGED <<build, clock, zone, userStates, users, entries>>

\* await db.getLearningsForDateRange(user.chatId, subDays(new Date(), 7),
\* new Date()) for the user at the head of the queue: with no entries the
\* loop goes on to the next user; a rejection leaves the loop and the job,
\* which has no try
JobRange ==
    /\ tasks # <<>> /\ tasks[1].pc = "range"
    /\ LET J == tasks[1]
           user == J.queue[1]
       IN  \/ \E weekLearnings \in getLearningsForDateRange(user, clock - (7 * 24), clock) :
                    IF Len(weekLearnings) > 0
                    THEN /\ tasks' = <<[J EXCEPT !.pc = "summary"]>>
                         /\ done' = <<>>
                    ELSE IF Len(J.queue) > 1
                    THEN /\ tasks' = <<[J EXCEPT !.queue = Tail(@)]>>
                         /\ done' = <<>>
                    ELSE /\ tasks' = <<>>
                         /\ done' = <<[J EXCEPT !.pc = "end", !.queue = <<>>]>>
           \/ /\ tasks' = <<>>
              /\ done' = <<[J EXCEPT !.pc = "rejected", !.failed = user]>>
    /\ UNCHANGED <<build, clock, zone, userStates, users, entries>>

\* await ai.generateWeeklyAnalysis(weekLearnings, 'summary'), which
\* resolves to the summary or to the apology of callOpenRouter, then
\* bot.sendMessage(user.chatId, ...), which is not awaited
JobSummary ==
    /\ tasks # <<>> /\ tasks[1].pc = "summary"
    /\ LET J == [tasks[1] EXCEPT !.sent = @ \cup {tasks[1].queue[1]}, !.queue = Tail(@)]
       IN  IF J.queue # <<>>
           THEN /\ tasks' = <<[J EXCEPT !.pc = "range"]>>
                /\ done' = <<>>
           ELSE /\ tasks' = <<>>
                /\ done' = <<[J EXCEPT !.pc = "end"]>>
    /\ UNCHANGED <<build, clock, zone, userStates, users, entries>>

\* Sunday 20:00 in the zone of the process; users with and without a
\* record, entries made a day and more than a week ago
InitCron ==
    /\ Quiet({"index"})
    /\ zone \in Zones
    /\ clock = (45 * 24) + 20 - zone
    /\ users \in [Users -> {NoUser, [NewUser EXCEPT !.joinedAt = clock - (9 * 24),
                                                    !.lastActiveAt = clock - 24]}]
    /\ entries \in Logged(MaxStored, {Null}, {24, 8 * 24})
NextCron ==
    \/ \E u \in Users : SetQuizTime(u, 3, 9)
    \/ CronTick
    \/ JobUsers
    \/ JobRange
    \/ JobSummary
SpecCron == InitCron /\ [][NextCron]_vars

\* ---------------------------------------------------------------- callOpenRouter
\* The learning bot calls the AI module with generateFollowUpQuestion and
\* generateWeeklyAnalysis, the diary bot the one with generateWeeklyReview
\* and generateEncouragement.  A response is what fetch and response.json()
\* come to: kind says whether fetch rejects ("network"), the status is not
\* OK ("status"), the body is not JSON ("not_json") or which part of
\* data.choices[0].message.content is there; content is the text of a
\* complete body.  The result is [type, text]: a string with its text,
\* undefined or null.
callOpenRouter(apiKey, response) ==
    LET enhanced == build # "diary"
        c == response.content
        last == IF \E k \in DOMAIN c : ~IsSpace(c[k])
                THEN CHOOSE k \in DOMAIN c :
                        ~IsSpace(c[k]) /\ \A n \in (k + 1)..Len(c) : IsSpace(c[n])
                ELSE 0
        string(t) == [type |-> "string", text |-> t]
        other(type) == [type |-> type, text |-> <<>>]
        \* the statements inside try: the value returned, or a throw
        body ==
            CASE response.kind \in {"network", "status", "not_json"} -> other("throw")
              [] response.kind \in {"no_choices", "empty_choices", "no_message"} ->
                    other("throw")
              [] response.kind = "no_content" ->
                    IF enhanced THEN other("throw") ELSE other("undefined")
              [] response.kind = "null_content" ->
                    IF enhanced THEN other("throw") ELSE other("null")
              [] OTHER ->
                    IF enhanced THEN string(SubSeq(c, SkipSpace(c, 1), last)) ELSE string(c)
    IN  IF ~apiKey
        THEN IF enhanced
             THEN string(<<"Sorry, the bot is not configured correctly.">>)
             ELSE string(<<"Sorry, the bot is not configured correctly to process this request.">>)
        ELSE IF body.type = "throw"
        THEN IF enhanced
             THEN string(<<"Sorry, I had an issue connecting to the AI service. Please try again later.">>)
             ELSE string(<<"Sorry, I had trouble connecting to the AI service.">>)
        ELSE body

\* a call of callOpenRouter by one of the generate functions
CallOpenRouter(apiKey, response) ==
    /\ done' = <<[h |-> "call_open_router", apiKey |-> apiKey, response |-> response,
                  result |-> callOpenRouter(apiKey, response)]>>
    /\ UNCHANGED <<build, clock, zone, userStates, users, entries, tasks>>

\* every revision, with the key set or not, on every kind of response
NextAi ==
    \E apiKey \in BOOLEAN :
        \E response \in
              [kind : {"network", "status", "not_json", "no_choices", "empty_choices",
                       "no_message", "no_content", "null_content"},
               content : {<<>>}]
              \cup [kind : {"ok"},
                    content : {<<"a">>, <<" ", "a">>, <<"a", " ", "b", "\n">>, <<" ">>, <<>>}] :
            CallOpenRouter(apiKey, response)
SpecAi == Boot(Builds \cup {"diary"}) /\ [][NextAi]_vars

\* ---------------------------------------------------------------- the diary bot
\* a variant that stores the log without the blockers
addLogOfTwo(chatId, data) ==
    [chatId |-> chatId, work |-> data.work, learn |-> data.learn,
     blockers |-> Undefined, createdAt |-> clock]
\* Log.create({ chatId, work, learn, blockers }) under { timestamps: true }
addLog(chatId, data) ==
    [chatId |-> chatId, work |-> data.work, learn |-> data.learn,
     blockers |-> data.blockers, createdAt |-> clock]

\* step 3 of the log flow: await db.addLog(chatId, data), then the state
\* is removed; a failure is caught at the handler boundary, which clears
\* the state
AddLog(i) ==
    LET H == tasks[i]
        l == addLog(H.chatId, H.content)
    IN  /\ H.pc = "add_log"
        /\ \/ /\ ~StoreFull
              /\ entries' = Append(entries, l)
              /\ Return(i, [H EXCEPT !.added = Append(@, l)],
                        [userStates EXCEPT ![H.chatId] = Absent], "ok")
           \/ /\ Return(i, H, Catch(H, userStates), "error")
              /\ UNCHANGED entries
        /\ UNCHANGED <<build, clock, zone, users>>

\* the diary bot: /log and the texts of the flow
NextLog ==
    \/ \E u \in Senders :
            \E t \in {<<"w">>, <<"l">>, <<"n">>, <<"/", "l", "o", "g">>, CmdPat.start} :
                Receive(u, t)
    \/ \E i \in DOMAIN tasks : AddLog(i)
SpecLog == Boot({"diary"}) /\ [][NextLog]_vars

\* the quiztime flow at its commit: await db.setQuizTime(chatId, day, hour),
\* then the state is removed; a failure is caught at the handler boundary,
\* which clears the state
QuizTime(i) ==
    LET H == tasks[i]
    IN  /\ H.pc = "set_quiz_time"
        /\ \/ /\ users' = [users EXCEPT ![H.chatId] =
                                setQuizTime(@, H.content.day, H.content.hour)]
              /\ Return(i, [H EXCEPT !.goals = <<H.content.hour>>],
                        [userStates EXCEPT ![H.chatId] = Absent], "ok")
           \/ /\ Return(i, H, Catch(H, userStates), "error")
              /\ UNCHANGED users
        /\ UNCHANGED <<build, clock, zone, entries>>

\* every user has a record: the first interaction has created it, with the
\* default slot or with a slot set before
InitTime ==
    /\ Quiet({"diary"})
    /\ clock = Noon
    /\ zone = 0
    /\ users \in [Users -> {NewUser, [NewUser EXCEPT !.quizDay = 5, !.quizTime = 7]}]
    /\ entries = <<>>

\* the diary bot: the day keyboard and the texts that answer it
NextTime ==
    \/ \E u \in Senders :
            \E a \in {<<"d", "a", "y", "_", "0">>, <<"d", "a", "y", "_", "3">>,
                      <<"d", "a", "y", "_", "6">>, <<"d", "a", "y", "_", "7">>} :
                Press(u, a)
    \/ \E u \in Senders :
            \E t \in {<<"1", "8">>, <<"0">>, <<"2", "3">>, <<"2", "5">>, <<"2", "4">>,
                      <<"-", "1">>, <<"a">>, Undefined, CmdPat.start} :
                Receive(u, t)
    \/ \E i \in DOMAIN tasks : QuizTime(i)
SpecTime == InitTime /\ [][NextTime]_vars

\* the streak right after an entry: the first user's only entry is made at
\* this instant, at any hour of the day, in a process at any offset from
\* UTC; the other user has none, or one of a day ago
InitNow ==
    /\ Quiet({"index"})
    /\ clock \in (Noon - 12)..(Noon + 11)
    /\ zone \in (0 - 12)..14
    /\ users = [u \in Users |-> NoUser]
    /\ \E old \in {<<>>, <<[chatId |-> 2, content |-> <<"a">>, category |-> Null,
                             createdAt |-> clock - 24]>>} :
            entries = <<Learning(1, <<"a">>, Null)>> \o old
NextNow == \E u \in Users : ShowUserStats(u)
SpecNow == InitNow /\ [][NextNow]_vars

\* ---------------------------------------------------------------- the walk of getUserStreak
\* getUserStreak round by round.  A call that is in its loop is the record
\* w in tasks: the keys of the user's entries, the key of currentDate and
\* the streak so far.
\* a variant that counts a day and stays on it
whileBodyInPlace(w) ==
    IF w.dateKey \in w.learningsByDate
    THEN [w EXCEPT !.streak = @ + 1]
    ELSE IF w.streak = 0 /\ w.dateKey = DateKey(clock)
         THEN [w EXCEPT !.dateKey = @ - 1]
         ELSE [w EXCEPT !.pc = "return"]
\* one round of while (true): a day with an entry counts and the date goes
\* back a day; today without an entry is passed over once; else break
whileBody(w) ==
    IF w.dateKey \in w.learningsByDate
    THEN [w EXCEPT !.streak = @ + 1, !.dateKey = @ - 1]
    ELSE IF w.streak = 0 /\ w.dateKey = DateKey(clock)
         THEN [w EXCEPT !.dateKey = @ - 1]
         ELSE [w EXCEPT !.pc = "return"]

\* the call up to the loop: Learning.find({ chatId }), the early return,
\* currentDate at the local midnight, learningsByDate
StreakCall(chatId) ==
    /\ tasks = <<>>
    /\ IF Owned(chatId) = {}
       THEN /\ done' = <<[h |-> "get_user_streak", chatId |-> chatId, streak |-> 0]>>
            /\ UNCHANGED tasks
       ELSE /\ tasks' = <<[h |-> "get_user_streak", chatId |-> chatId, pc |-> "loop",
                           learningsByDate |->
                               {DateKey(entries[i].createdAt) : i \in Owned(chatId)},
                           dateKey |-> DateKey(StartOfDay), streak |-> 0]>>
            /\ done' = <<>>
    /\ UNCHANGED <<build, clock, zone, userStates, users, entries>>

\* a round of the loop, or the return after break
StreakRound ==
    /\ tasks # <<>>
    /\ tasks[1].h = "get_user_streak"
    /\ \E w \in {whileBody(tasks[1])} :
            IF w.pc = "return"
            THEN /\ tasks' = <<>>
                 /\ done' = <<[h |-> "get_user_streak", chatId |-> w.chatId,
                               streak |-> w.streak]>>
            ELSE /\ tasks' = <<w>>
                 /\ done' = <<>>
    /\ UNCHANGED <<build, clock, zone, userStates, users, entries>>

\* entries of the last days, with and without gaps, two of them half a day
\* apart, at 02:00, 12:00 or 22:00 UTC, in any zone
InitWalk ==
    /\ Quiet({"index"})
    /\ clock \in {Noon - 10, Noon, Noon + 10}
    /\ zone \in Zones
    /\ users = [u \in Users |-> NoUser]
    /\ entries \in Logged(MaxLogged, {Null}, {1, 13, 25, 49})
NextWalk ==
    \/ \E u \in Users : StreakCall(u)
    \/ StreakRound
\* the loop has no await: once called, the function runs to its return
SpecWalk == InitWalk /\ [][NextWalk]_vars /\ WF_vars(StreakRound)

\* ---------------------------------------------------------------- properties
\* the handlers that returned in the last step
Returned == {done[k] : k \in DOMAIN done}

\* the text is a command as the user types it
Slash(t) == t # Undefined /\ Len(t) > 0 /\ t[1] = "/"

World == [us |-> userStates, ts |-> tasks, dn |-> <<>>]

Stored(l) == \E k \in DOMAIN entries : entries[k] = l

\* the handler committed an entry through processLearningEntry
Commit(e) ==
    \/ e.h = "learn" /\ e.content # Undefined
    \/ e.h = "message" /\ e.flow = "quick_learn" /\ ~Slash(e.text)
    \/ e.h = "callback_query" /\ e.text \in DOMAIN categories /\ e.content # Undefined

\* the handler took a reply in the follow-up conversation
Reply(e) == e.h = "message" /\ e.flow = "ai_convo" /\ ~Slash(e.text)

\* C1 as the specification states it: an entry is written only by the
\* terminal step of a flow; a text in waiting_for_learning, an invalid goal
\* and a reply in the follow-up conversation add nothing.
C1_OnlyTerminalStepWrites ==
    \A e \in Returned :
        /\ Len(e.added) <= 1
        /\ (e.h = "message" /\ e.flow = "waiting_for_learning") => e.added = <<>>
        /\ (e.h = "message" /\ e.out = "invalid") => e.added = <<>>
        /\ Reply(e) => e.added = <<>>

\* C1, amended: a handler adds at most one entry; the handlers that add one
\* are the commits through processLearningEntry (/learn with content, a text
\* in quick_learn, a category button with pending content) and every reply
\* in the follow-up conversation, whose entry is the reply prefixed with
\* "Follow-up thought: " and has no category; each of them that returns
\* normally has added exactly one entry, and that entry is in the store.  A
\* text in waiting_for_learning adds none.
C1_EntriesByCommitOrReply ==
    \A e \in Returned :
        /\ Len(e.added) <= 1
        /\ e.added # <<>> => Commit(e) \/ Reply(e)
        /\ (e.out = "ok" /\ (Commit(e) \/ Reply(e))) => Len(e.added) = 1
        /\ (Reply(e) /\ e.added # <<>>) =>
                e.added = <<Learning(e.chatId, FollowUpThought(e.text), Null)>>
        /\ (Commit(e) /\ e.added # <<>>) => e.added[1].content = e.content
        /\ \A k \in DOMAIN e.added : Stored(e.added[k])
        /\ (e.h = "message" /\ e.flow = "waiting_for_learning") => e.added = <<>>

\* a reply in the follow-up conversation has returned normally and its
\* entry is in the store
C1_Witness ==
    \E e \in Returned :
        /\ Reply(e) /\ e.out = "ok"
        /\ e.added = <<Learning(1, FollowUpThought(<<"a">>), Null)>>
        /\ Stored(e.added[1])

\* the text parses to an integer from 1 to 50
InRange(t) == \E n \in 1..50 : parseInt(t) = [nan |-> FALSE, n |-> n]

GoalInput(e) == e.h = "message" /\ e.flow = "custom_goal" /\ ~Slash(e.text)

C3_CommandNotFlowInput ==
    /\ \A e \in Returned :
            (e.h = "message" /\ Slash(e.text)) =>
                e.out = "command" /\ e.added = <<>> /\ e.goals = <<>>
    /\ \A u \in Senders, t \in Commands :
            \E R \in {onMessage(World, u, t)} :
                /\ R.us = userStates
                /\ Len(R.ts) = Len(tasks)
                /\ Len(R.dn) = 1 /\ R.dn[1].out = "command"

\* a command arrived during the follow-up conversation, and the
\* conversation is still open
C3_Witness ==
    \E e \in Returned :
        /\ e.h = "message" /\ e.text = CmdPat.stats /\ e.flow = "ai_convo"
        /\ e.out = "command"
        /\ userStates[e.chatId].command = "ai_convo"

\* the update leaves the state of the user as it is
Keeps(u, t) == ProcessUpdate(World, u, t).us[u] = userStates[u]

\* C4: every command other than /stop has the same effect on a flow in
\* progress: either all of them leave the state as it is or none does.
C4_UniformInterrupt ==
    \A u \in Senders :
        userStates[u] # Absent =>
            \A t1, t2 \in Commands \ {CmdPat.stop} : Keeps(u, t1) <=> Keeps(u, t2)

CatPress(e) == e.h = "callback_query" /\ e.text \in DOMAIN categories

QuickInput(e) ==
    e.h = "message" /\ e.flow = "quick_learn" /\ ~Slash(e.text) /\ e.text # Undefined

\* C6: in quick_learn one text commits exactly one entry whose content is
\* the text and which has no category; when the handler has returned, the
\* user has no state.
C6_QuickLearn ==
    \A e \in Returned :
        QuickInput(e) =>
            /\ e.out \in {"ok", "error"}
            /\ Len(e.added) <= 1
            /\ e.out = "ok" =>
                    e.added = <<Learning(e.chatId, e.text, Null)>> /\ Stored(e.added[1])
            /\ userStates[e.chatId] = Absent

\* index.js has stored a quick entry, opened the follow-up conversation
\* and removed it again
C6_Witness ==
    \E e \in Returned :
        /\ QuickInput(e) /\ e.out = "ok" /\ build = "index"
        /\ e.added = <<Learning(1, <<"a">>, Null)>>
        /\ userStates[e.chatId] = Absent

SearchInput(e) == e.h = "message" /\ e.flow = "search" /\ ~Slash(e.text)

\* C7: in search one text ends the flow, whether the search succeeds or the
\* store fails, and the handler writes no entry.
C7_SearchEnds ==
    /\ \A e \in Returned :
            SearchInput(e) =>
                /\ e.out \in {"ok", "error"}
                /\ e.added = <<>> /\ e.goals = <<>>
                /\ userStates[e.chatId] = Absent
    /\ \A i \in DOMAIN tasks : tasks[i].pc = "search" => tasks[i].added = <<>>

\* the store failed during the search, and the flow is over
C7_Witness ==
    \E e \in Returned :
        /\ SearchInput(e) /\ e.out = "error" /\ e.added = <<>>
        /\ userStates[e.chatId] = Absent

\* the returned handler ends the conversation or starts another flow
Leaves(e) ==
    \/ e.h \in {"stop", "quick"}
    \/ e.h = "learn" /\ Group1(e.text, CmdPat.learn) = Undefined
    \/ e.h = "search" /\ Group1(e.text, CmdPat.search) = Undefined
    \/ e.h = "callback_query" /\ e.text \in {B_stop_convo, B_quick_learn, B_goal_custom}
    \/ e.h = "message" /\ e.out = "error"

C8_Step ==
    /\ \A k \in DOMAIN done' :
            (Reply(done'[k]) /\ done'[k].out = "ok") =>
                /\ userStates[done'[k].chatId].command = "ai_convo"
                /\ userStates'[done'[k].chatId] = userStates[done'[k].chatId]
    /\ \A u \in Senders :
            (userStates[u].command = "ai_convo" /\ userStates'[u].command # "ai_convo") =>
                \/ \E k \in DOMAIN done' : done'[k].chatId = u /\ Leaves(done'[k])
                \/ \E i \in DOMAIN tasks :
                        tasks[i].chatId = u /\ tasks[i].text = B_quiz_inline

C9_StopButton ==
    \A e \in Returned :
        (e.h = "callback_query" /\ e.text = B_stop_convo /\ e.flow = "ai_convo") =>
            /\ userStates[e.chatId] = Absent
            /\ \E R \in {onMessage(World, e.chatId, <<"a">>)} :
                    R.us = userStates /\ Len(R.ts) = Len(tasks)

C10_Step ==
    /\ \A u \in Senders :
            (/\ Len(tasks') = Len(tasks) + 1
             /\ tasks'[Len(tasks')].pc = "quiz_next"
             /\ tasks'[Len(tasks')].chatId = u) =>
                userStates'[u] =
                    [userStates[u] EXCEPT !.history =
                        Append(@, [role |-> "user",
                                   content |-> AnswerTo(userStates[u].lastQuestion,
                                                        tasks'[Len(tasks')].text)])]
    /\ \A i \in DOMAIN tasks :
            (/\ tasks[i].pc = "quiz_next" /\ ~tasks[i].intr
             /\ Len(tasks') = Len(tasks) - 1
             /\ Len(done') = 1 /\ done'[1] = Event(tasks[i], done'[1].out)) =>
                CASE done'[1].out = "ok" ->
                        \E q \in Questions :
                            /\ userStates[tasks[i].chatId].command = "inline_quiz"
                            /\ userStates'[tasks[i].chatId] =
                                    [userStates[tasks[i].chatId] EXCEPT
                                        !.lastQuestion = q,
                                        !.history = Append(@, [role |-> "assistant",
                                                               content |-> q])]
                  [] done'[1].out = "exhausted" -> userStates'[tasks[i].chatId] = Absent
                  [] OTHER -> TRUE

Arrival ==
    /\ Len(tasks') >= Len(tasks)
    /\ Len(tasks') > Len(tasks) \/ done' # <<>>

\* C11: once /stop has been handled the user has no state, and the state
\* stays absent until a later update of the user arrives; in particular
\* the step after /stop gives the user a state only if it is an arrival.
C11_StopHolds ==
    [][\A e \in Returned :
            e.h = "stop" =>
                /\ userStates[e.chatId] = Absent
                /\ userStates'[e.chatId] # Absent => Arrival]_vars

\* C12: when a store or AI call has thrown while a text message or a
\* button press was handled, the user has no state once the handler has
\* returned.
C12_FailureClears ==
    \A e \in Returned :
        (e.out = "error" /\ e.h \in {"message", "callback_query"}) =>
            userStates[e.chatId] = Absent

\* a message that is not a command, sent by a user who has no state
IdleText(e) == e.h = "message" /\ e.flow = "none" /\ ~Slash(e.text)

\* C13: for a user with no state, a message that does not begin with '/'
\* changes nothing: the state map, the entries and the user records are
\* the same before and after the update is handled.
C13_IdleNoOp ==
    [][(\E k \in DOMAIN done' : IdleText(done'[k]) /\ Arrival) =>
            /\ userStates' = userStates
            /\ entries' = entries
            /\ users' = users]_vars

\* the users whose handler began, went on or returned in the step
Actors ==
    {done'[k].chatId : k \in DOMAIN done'} \cup
    (IF Len(tasks') >= Len(tasks)
     THEN {tasks'[j].chatId :
            j \in {n \in DOMAIN tasks' : n > Len(tasks) \/ tasks'[n] # tasks[n]}}
     ELSE {})

\* C14: a step of a handler of user A leaves the state, the entries and
\* the user record (with the stored goal) of every other user B as they
\* were, however the handlers of the users interleave.
C14_OtherUsersUntouched ==
    [][\A B \in Users :
            B \notin Actors =>
                /\ userStates'[B] = userStates[B]
                /\ users'[B] = users[B]
                /\ SelectSeq(entries', LAMBDA l : l.chatId = B) = LearningsOf(B)]_vars

\* handlers of both users are suspended at once, user 1 with an entry
\* stored and user 2 with a goal stored and a flow open
C14_Witness ==
    /\ \E i, j \in DOMAIN tasks : tasks[i].chatId = 1 /\ tasks[j].chatId = 2
    /\ LearningsOf(1) # <<>> /\ LearningsOf(2) = <<>>
    /\ users[2].dailyGoal # <<>> /\ users[1].dailyGoal = <<>>
    /\ userStates[2] # Absent

\* C15: one pending learning content is committed at most once, also when
\* the category button is pressed again before the handler of the first
\* press has finished: the user, whose only pending content is the text a,
\* never has two entries.
C15_OneCommit == \A u \in Senders : Len(LearningsOf(u)) <= 1

\* the statistics shown in the last step
Shown == {e \in Returned : e.h = "show_stats"}

\* the length of the run of consecutive days in `days` that ends at day d
RECURSIVE RunTo(_, _)
RunTo(days, d) == IF d \in days THEN 1 + RunTo(days, d - 1) ELSE 0

\* the streak by calendar days, for days that begin `shift` hours before
\* the days of UTC: the run that ends today if today has an entry, and
\* yesterday if not
CalendarStreak(chatId, shift) ==
    LET days == {(entries[i].createdAt + shift) \div 24 :
                    i \in {k \in DOMAIN entries : entries[k].chatId = chatId}}
        today == (clock + shift) \div 24
    IN  IF today \in days THEN RunTo(days, today) ELSE RunTo(days, today - 1)

\* C16: the streak is the length of the maximal run of consecutive
\* calendar days with an entry that ends today, or yesterday when today
\* has none; the days are those of UTC or those of the zone of the process.
C16_Streak ==
    \A e \in Shown :
        e.streak \in {CalendarStreak(e.chatId, 0), CalendarStreak(e.chatId, zone)}

\* the same in a process that runs in UTC
C16_StreakInUTC == zone = 0 => C16_Streak

\* the user has no entry in the collection
NoEntry(chatId) == \A i \in DOMAIN entries : entries[i].chatId # chatId

\* C17: for a user with no entries the streak is 0 and the counts of
\* today, of the week and of the month are 0, whatever the other users
\* have logged.
C17_NothingLogged ==
    \A e \in Shown :
        NoEntry(e.chatId) =>
            /\ e.streak = 0
            /\ e.todayCount = 0
            /\ e.stats.thisWeek = 0 /\ e.stats.thisMonth = 0 /\ e.stats.total = 0

\* the statistics of a user without entries are shown while another user
\* has entries of today and of the two days before
C17_Witness ==
    \E e \in Shown :
        /\ NoEntry(e.chatId) /\ e.streak = 0 /\ e.todayCount = 0
        /\ \E u \in Users : u # e.chatId /\ zone = 0 /\ CalendarStreak(u, 0) = 3

\* min(100, round(todayCount / goal * 100)) in exact arithmetic: the
\* quotient 100 * todayCount / goal rounded to the nearest integer, a
\* half going up
ExactProgress(todayCount, goal) ==
    LET r == (200 * todayCount + goal) \div (2 * goal)
    IN  IF r > 100 THEN 100 ELSE r

\* C18: when a goal is set the progress shown is
\* min(100, round(todayCount / goal * 100)), a number in 0..100; when no
\* goal is set no progress is shown.
C18_Progress ==
    \A e \in Shown :
        IF users[e.chatId].dailyGoal = <<>>
        THEN e.progress = <<>>
        ELSE /\ e.progress = <<ExactProgress(e.todayCount, users[e.chatId].dailyGoal[1])>>
             /\ e.progress[1] \in 0..100

\* what does hold: the progress is in 0..100, at most one below the exact
\* value, and absent without a goal
C18_ProgressNearly ==
    \A e \in Shown :
        IF users[e.chatId].dailyGoal = <<>>
        THEN e.progress = <<>>
        ELSE /\ e.progress[1] \in 0..100
             /\ ExactProgress(e.todayCount, users[e.chatId].dailyGoal[1]) - e.progress[1]
                    \in {0, 1}

\* the number of entries of the user in a collection that were made at
\* most seven days (168 hours) before now
InPastWeek(coll, chatId) ==
    Len(SelectSeq(coll, LAMBDA l : l.chatId = chatId /\ clock - l.createdAt <= 168))

\* the orders in which the entries of the collection can have been inserted
Reorderings ==
    {[i \in DOMAIN entries |-> entries[p[i]]] :
        p \in {q \in [DOMAIN entries -> DOMAIN entries] :
                \A i, j \in DOMAIN entries : q[i] = q[j] => i = j}}

\* C19: the weekly total of getUserStats is the number of entries of the
\* user with createdAt >= now - 7 days, whatever the order in which the
\* entries were inserted.
C19_WeeklyTotal ==
    \A e \in Shown :
        \A coll \in Reorderings : e.stats.thisWeek = InPastWeek(coll, e.chatId)

\* three entries of the user, the newest inserted first, made 167, 168 and
\* 169 hours ago: two of them count
C19_Witness ==
    \E e \in Shown :
        /\ Len(entries) = 3
        /\ \A i \in 1..3 : entries[i].chatId = e.chatId /\ clock - entries[i].createdAt = 166 + i
        /\ e.stats.thisWeek = 2

\* the results of getTopCategories in the last step
Tops == {e \in Returned : e.h = "top_categories"}

\* the number of entries of the user with the category
Tagged(chatId, c) ==
    Len(SelectSeq(entries, LAMBDA l : l.chatId = chatId /\ l.category = c))

\* the categories the user has used
Used(chatId) == {c \in {entries[i].category : i \in DOMAIN entries} \ {Null} :
                    Tagged(chatId, c) > 0}

\* C20: getTopCategories(user, N) returns at most N pairs of name and
\* count (N of them, or one for every category used if those are fewer),
\* the names distinct and never null, every count the exact number of
\* entries of the user with that category, the counts in non-increasing
\* order, and no category left out has a count greater than one returned.
C20_TopCategories ==
    \A e \in Tops :
        LET names == {e.top[i].name : i \in DOMAIN e.top}
        IN  /\ Len(e.top) <= e.limit
            /\ Len(e.top) = e.limit \/ names = Used(e.chatId)
            /\ Cardinality(names) = Len(e.top)
            /\ Null \notin names
            /\ \A i \in DOMAIN e.top :
                    e.top[i].count = Tagged(e.chatId, e.top[i].name) /\ e.top[i].count > 0
            /\ \A i, j \in DOMAIN e.top : i < j => e.top[i].count >= e.top[j].count
            /\ \A c \in Used(e.chatId) \ names :
                    \A i \in DOMAIN e.top : Tagged(e.chatId, c) <= e.top[i].count

\* of two categories the user has used, the one with two entries is
\* returned and the one with one entry is left out
C20_Witness ==
    \E e \in Tops :
        /\ e.limit = 1 /\ Len(e.top) = 1 /\ e.top[1].count = 2
        /\ Cardinality(Used(e.chatId)) = 2

\* the calendar day, in the zone of the process, of an instant
LocalDay(t) == (t + zone) \div 24

\* C21: getInactiveUsers returns exactly the users with a record whose
\* notifications setting is on and who have no entry made on the current
\* day (of the zone the process runs in) or later; a user who logged an
\* entry today and a user with notifications off are never returned.
C21_InactiveUsers ==
    \A e \in Returned :
        e.h = "inactive_users" =>
            \A u \in Users :
                u \in e.result <=>
                    /\ users[u].exists
                    /\ users[u].notifications
                    /\ \A i \in DOMAIN entries :
                            entries[i].chatId = u =>
                                LocalDay(entries[i].createdAt) < LocalDay(clock)

\* five hours behind UTC at 07:00 local time: user 1 logged an entry at
\* midnight sharp and is not returned, user 2 logged one an hour earlier
\* and is
C21_Witness ==
    \E e \in Returned :
        /\ e.h = "inactive_users" /\ e.result = {2}
        /\ zone = -5
        /\ users[1].exists /\ users[1].notifications
        /\ \E i \in DOMAIN entries : entries[i].chatId = 1 /\ entries[i].createdAt = clock - 7
        /\ \E i \in DOMAIN entries : entries[i].chatId = 2 /\ entries[i].createdAt = clock - 8

\* C22: with no user record, the average number of learnings per user that
\* getGlobalStats returns is zero or undefined, never NaN and never
\* infinite, with no entries and with entries of users without a record.
C22_AverageOfNoUsers ==
    \A e \in Returned :
        (e.h = "global_stats" /\ e.stats.totalUsers = 0) =>
            /\ e.stats.averageLearningsPerUser \notin {NaN, Infinity}
            /\ e.stats.averageLearningsPerUser \in {Zero, Undefined}

\* the step is a call of findOrCreateUser for u
Found(u) == done' = <<[h |-> "find_or_create_user", chatId |-> u]>>

Kept == {"exists", "quizDay", "quizTime", "dailyGoal", "joinedAt", "notifications"}

\* C23: findOrCreateUser is an upsert.  The first call for an identifier
\* creates the record with the defaults (quiz slot Sunday 20:00, no goal,
\* notifications on, joined now); a repeated call leaves quizDay, quizTime,
\* dailyGoal, joinedAt and the settings of the record as they are and
\* changes at most lastActiveAt; no call touches another user's record or
\* an entry.
C23_Upsert ==
    [][\A u \in Users :
            Found(u) =>
                /\ users'[u].exists
                /\ \A v \in Users \ {u} : users'[v] = users[v]
                /\ entries' = entries
                /\ users[u].exists =>
                        /\ DOMAIN users'[u] = DOMAIN users[u]
                        /\ \A f \in Kept \cap DOMAIN users[u] : users'[u][f] = users[u][f]
                /\ ~users[u].exists =>
                        /\ users'[u].quizDay = 0 /\ users'[u].quizTime = 20
                        /\ build # "diary" =>
                                /\ users'[u].dailyGoal = <<>>
                                /\ users'[u].notifications
                                /\ users'[u].joinedAt = clock
                                /\ users'[u].lastActiveAt = clock]_vars

\* a day after the record was made, with a goal of 3, the quiz slot (3, 9)
\* and notifications off, findOrCreateUser has been called again: only
\* lastActiveAt differs
C23_Witness ==
    /\ build = "index"
    /\ done = <<[h |-> "find_or_create_user", chatId |-> 1]>>
    /\ users[1].exists /\ users[1].dailyGoal = <<3>> /\ ~users[1].notifications
    /\ users[1].quizDay = 3 /\ users[1].quizTime = 9
    /\ users[1].joinedAt = Noon - 8 /\ users[1].lastActiveAt = Noon + 24

\* the step is a call of cleanupOldData
Cleaned == done' # <<>> /\ done'[1].h = "cleanup"

\* C25: the entry log is append-only.  A step leaves the entries as they
\* are, adds one at the end, or is a call of cleanupOldData, which removes
\* exactly the entries made before now minus the days to keep and leaves
\* the others, in their order, unchanged.
C25_AppendOnly ==
    [][IF Cleaned
       THEN /\ \A l \in {entries'[k] : k \in DOMAIN entries'} :
                    l.createdAt >= clock - (24 * done'[1].daysToKeep)
            /\ \E keep \in SUBSET DOMAIN entries :
                    /\ \A i \in DOMAIN entries :
                            i \in keep <=>
                                entries[i].createdAt >= clock - (24 * done'[1].daysToKeep)
                    /\ Len(entries') = Cardinality(keep)
                    /\ \A i \in keep :
                            entries'[Cardinality({j \in keep : j <= i})] = entries[i]
       ELSE /\ Len(entries') \in {Len(entries), Len(entries) + 1}
            /\ SubSeq(entries', 1, Len(entries)) = entries]_vars

\* cleanupOldData(1) has just removed one entry and the store still holds
\* one made exactly a day ago
C25_Witness ==
    /\ done = <<[h |-> "cleanup", daysToKeep |-> 1, deletedCount |-> 1]>>
    /\ Len(entries) = 1 /\ entries[1].createdAt = clock - 24

\* C24: once a handler has committed a goal (a goal_<n> button or a valid
\* text in custom_goal), getUserGoal returns that goal for the user,
\* whether or not the user ever sent /start.
C24_GoalReadBack ==
    \A e \in Returned :
        e.goals # <<>> => getUserGoal(e.chatId) = <<e.goals[Len(e.goals)]>>

\* C24 for the users who have a record: the goal is read back
C24_GoalOfRegistered ==
    \A e \in Returned :
        (e.goals # <<>> /\ users[e.chatId].exists) =>
            getUserGoal(e.chatId) = <<e.goals[Len(e.goals)]>>

\* C26: getLearningsForDateRange returns exactly the entries of the user
\* made at or after the start and before the end, ordered by ascending
\* createdAt.
C26_RangeAscending ==
    \A e \in Returned :
        e.h = "date_range" =>
            /\ Len(e.result) = Cardinality({i \in DOMAIN entries :
                    /\ entries[i].chatId = e.chatId
                    /\ e.startDate <= entries[i].createdAt
                    /\ entries[i].createdAt < e.endDate})
            /\ \A k \in DOMAIN e.result :
                    /\ e.result[k].chatId = e.chatId
                    /\ e.startDate <= e.result[k].createdAt
                    /\ e.result[k].createdAt < e.endDate
                    /\ Stored(e.result[k])
            /\ \A i, j \in DOMAIN e.result :
                    i < j => e.result[i].createdAt <= e.result[j].createdAt

\* C26 but for the order: the entries of the range, the latest first
C26_RangeDescending ==
    \A e \in Returned :
        e.h = "date_range" =>
            /\ Len(e.result) = Cardinality({i \in DOMAIN entries :
                    /\ entries[i].chatId = e.chatId
                    /\ e.startDate <= entries[i].createdAt
                    /\ entries[i].createdAt < e.endDate})
            /\ \A k \in DOMAIN e.result :
                    /\ e.result[k].chatId = e.chatId
                    /\ e.startDate <= e.result[k].createdAt
                    /\ e.result[k].createdAt < e.endDate
                    /\ Stored(e.result[k])
            /\ \A i, j \in DOMAIN e.result :
                    i < j => e.result[i].createdAt >= e.result[j].createdAt

\* the runs of the weekly job that ended in the last step
Runs == {e \in Returned : e.h = "cron"}

\* the user has an entry made in the past seven days
ActiveThisWeek(u) ==
    \E i \in DOMAIN entries :
        /\ entries[i].chatId = u
        /\ clock - (7 * 24) <= entries[i].createdAt /\ entries[i].createdAt < clock

\* C27: when a call fails during one user's iteration of the weekly job,
\* every other user with a record and an entry of the past 7 days is still
\* sent the summary in that run.
C27_OthersStillServed ==
    \A e \in Runs :
        e.failed # 0 =>
            \A u \in Users \ {e.failed} :
                (users[u].exists /\ ActiveThisWeek(u)) => u \in e.sent

\* C27 for the runs in which no store call fails (the AI call resolves to a
\* summary or to an apology): every user with a record and an entry of the
\* past 7 days is sent the message, and nobody else
C27_ServedWithoutFailure ==
    \A e \in Runs :
        e.pc = "end" =>
            e.sent = {u \in Users : users[u].exists /\ ActiveThisWeek(u)}

\* C28: the weekly job sends the review only to users whose quizDay and
\* quizTime are the weekday and the hour of the tick.
C28_OnlyOwnSlot ==
    \A e \in Runs :
        \A u \in e.sent :
            /\ users[u].quizDay = (((clock + zone) \div 24) + 4) % 7
            /\ users[u].quizTime = (clock + zone) % 24

\* the calls of callOpenRouter that returned in the last step
Calls == {e \in Returned : e.h = "call_open_router"}

\* the texts callOpenRouter returns when it cannot give an answer
Apologies ==
    {<<"Sorry, the bot is not configured correctly.">>,
     <<"Sorry, the bot is not configured correctly to process this request.">>,
     <<"Sorry, I had an issue connecting to the AI service. Please try again later.">>,
     <<"Sorry, I had trouble connecting to the AI service.">>}

\* C29: callOpenRouter never throws and always returns a text; without an
\* API key, on a network failure, on a status that is not OK and on a
\* body that is malformed (not JSON, or without choices[0].message.content)
\* the text is an apology.
C29_AlwaysAText ==
    \A e \in Calls :
        /\ e.result.type = "string"
        /\ (~e.apiKey \/ e.response.kind # "ok") => e.result.text \in Apologies

\* C29 for the AI module of the learning bot
C29_EnhancedModule ==
    \A e \in Calls :
        build # "diary" =>
            /\ e.result.type = "string"
            /\ (~e.apiKey \/ e.response.kind # "ok") => e.result.text \in Apologies

\* the texts of the log flow that were handled in this step
LogInputs == {done'[k] : k \in {n \in DOMAIN done' :
                done'[n].h = "message" /\ done'[n].flow = "log" /\ ~Slash(done'[n].text)}}

\* C30: the log flow takes three texts.  The first is kept as the work and
\* the second as what was learned, and neither writes to the store; the
\* third is the blockers and commits exactly one entry with the three
\* values through addLog, after which the user has no state.  The store
\* changes in no other step.
C30_LogFlow ==
    [][/\ \A e \in LogInputs :
            LET before == userStates[e.chatId]
                after == userStates'[e.chatId]
            IN  IF Len(tasks') = Len(tasks)
                THEN /\ entries' = entries /\ e.added = <<>>
                     /\ after.command = "log" /\ after.step = before.step + 1
                     /\ \/ before.step = 1 /\ after.data.work = e.text
                        \/ /\ before.step = 2 /\ after.data.learn = e.text
                           /\ after.data.work = before.data.work
                ELSE IF e.out = "ok"
                THEN /\ entries' = Append(entries, e.added[1])
                     /\ e.added = <<[chatId |-> e.chatId, work |-> e.content.work,
                                     learn |-> e.content.learn, blockers |-> e.text,
                                     createdAt |-> clock]>>
                     /\ e.intr \/ /\ e.content.work = before.data.work
                                  /\ e.content.learn = before.data.learn
                     /\ after.command = "none"
                ELSE /\ entries' = entries /\ e.added = <<>>
                     /\ after.command = "none"
       /\ entries' # entries => LogInputs # {}]_vars

\* /log, then the texts w, l and n: one entry with work w, learned l and
\* blockers n, and the user has no state
C30_Witness ==
    /\ Len(entries) = 1
    /\ entries[1].work = <<"w">> /\ entries[1].learn = <<"l">>
    /\ entries[1].blockers = <<"n">>
    /\ userStates[1].command = "none"
    /\ \E e \in Returned : e.h = "message" /\ e.flow = "log" /\ e.added = <<entries[1]>>

\* the text parses to an integer from 0 to 23
Hour(t) == \E n \in 0..23 : parseInt(t) = [nan |-> FALSE, n |-> n]

\* the texts of the quiztime flow that were handled in this step
TimeInputs == {done'[k] : k \in {n \in DOMAIN done' :
                done'[n].h = "message" /\ done'[n].flow = "quiztime"
                    /\ ~Slash(done'[n].text)}}

\* C31: in the quiztime flow, after a day d was selected, a text that does
\* not parse to an integer from 0 to 23 leaves the state (the step and the
\* day) and every User record as they are, however often it happens; a text
\* that parses to such an h commits quizDay = d and quizTime = h to the
\* user's record and to no other, and the user has no state afterwards.  No
\* other step changes a User record.
C31_QuizTime ==
    [][/\ \A e \in TimeInputs :
            LET before == userStates[e.chatId]
                after == userStates'[e.chatId]
            IN  IF Len(tasks') = Len(tasks)
                THEN /\ ~Hour(e.text)
                     /\ userStates' = userStates
                     /\ before.command = "quiztime" /\ before.step = 1
                     /\ users' = users
                ELSE /\ Hour(e.text)
                     /\ e.intr \/ e.content.day = before.data.day
                     /\ after.command = "none"
                     /\ IF e.out = "ok"
                        THEN /\ users'[e.chatId].quizDay = e.content.day
                             /\ users'[e.chatId].quizTime = parseInt(e.text).n
                             /\ \A u \in Users \ {e.chatId} : users'[u] = users[u]
                        ELSE users' = users
       /\ users' # users => TimeInputs # {}]_vars

\* day 3 was selected and the text 18 has been committed: the slot of the
\* user is (3, 18), it was (0, 20) or (5, 7) before, and the flow is over
C31_Witness ==
    /\ build = "diary"
    /\ \E e \in Returned :
            /\ e.h = "message" /\ e.flow = "quiztime" /\ e.out = "ok"
            /\ e.text = <<"1", "8">> /\ ~e.intr
            /\ users[e.chatId].quizDay = 3 /\ users[e.chatId].quizTime = 18
            /\ userStates[e.chatId].command = "none"

\* the handlers that were suspended and have returned in this step
Finished == IF Len(tasks') < Len(tasks) THEN {done'[k] : k \in DOMAIN done'} ELSE {}

\* the states that only a command or a button sets, never a handler that
\* resumes after an await
Begun == {"quick_learn", "search", "waiting_for_learning", "custom_goal"}

\* C32: a flow the user has started while an earlier handler of the same
\* user was suspended is still the user's state when that handler has
\* finished.  The state before the handler's last step is such a flow when
\* its command is one that only commands and buttons set and is not the
\* command the handler began in; the handler's completion or its catch
\* clause must then leave it as it is.
C32_NewFlowSurvives ==
    [][\A e \in Finished :
            (userStates[e.chatId].command \in Begun
                /\ userStates[e.chatId].command # e.flow)
            => userStates'[e.chatId] = userStates[e.chatId]]_vars

\* the handler committed an entry and has sent the follow-up question with
\* its invitation to reply: processLearningEntry ran to its end, and in the
\* revision with the PDF export the quick entry asks for no follow-up
Invited(e) ==
    /\ Commit(e) /\ e.out = "ok"
    /\ (e.h = "message" => build = "index")

\* C33: when a handler that has sent a follow-up question has finished, the
\* user's state is ai_convo, so that the reply the question invites is
\* taken; for an entry committed through /learn with content, through a
\* category button and through the quick entry.
C33_ReplyExpected ==
    \A e \in Returned : Invited(e) => userStates[e.chatId].command = "ai_convo"

\* the same for /learn with content alone
C33_AfterLearn ==
    \A e \in Returned :
        (Invited(e) /\ e.h = "learn") => userStates[e.chatId].command = "ai_convo"

\* a handler of a command: one that bot.onText has registered
OfCommand(h) == h \notin {"message", "callback_query"}

\* C34: a text is handled on one path only, as a command or as the input
\* of a flow: the handler of a command runs only on a text that begins
\* with '/', so a text with a command further on ('x /search') is the
\* input of the flow and starts, replaces or stops nothing.
C34_OnePath ==
    /\ \A e \in Returned : OfCommand(e.h) => Slash(e.text)
    /\ \A i \in DOMAIN tasks : OfCommand(tasks[i].h) => Slash(tasks[i].text)

\* the same for the texts in which a command begins at the first character
\* or nowhere
C34_CommandsInFront ==
    /\ \A e \in Returned :
            (OfCommand(e.h) /\ e.text # <<"x", " ">> \o CmdPat.search) => Slash(e.text)
    /\ \A i \in DOMAIN tasks : OfCommand(tasks[i].h) => Slash(tasks[i].text)

\* C35: whatever commands, texts and offered buttons were handled, the
\* dailyGoal of every User record is null or an integer from 1 to 50.
C35_GoalInRange ==
    \A u \in Users :
        users[u].exists =>
            \/ users[u].dailyGoal = <<>>
            \/ \E g \in 1..50 : users[u].dailyGoal = <<g>>

\* the largest goal was typed in and is stored
C35_Witness ==
    \E e \in Returned :
        /\ e.h = "message" /\ e.flow = "custom_goal" /\ e.text = <<"5", "0">>
        /\ e.out = "ok"
        /\ users[e.chatId].exists /\ users[e.chatId].dailyGoal = <<50>>

\* the user's only entry was made at this instant
OnlyNow(chatId) ==
    /\ Cardinality(Owned(chatId)) = 1
    /\ \A i \in Owned(chatId) : entries[i].createdAt = clock

\* C36: getUserStreak puts the entries and the day it walks from on the
\* same calendar: at every offset of the process from UTC and at every
\* time of day, a user whose only entry was made at this instant has the
\* streak 1.
C36_StreakOfNow ==
    \A e \in Shown : OnlyNow(e.chatId) => e.streak = 1

\* the same in a process that runs in UTC
C36_StreakOfNowInUTC == zone = 0 => C36_StreakOfNow

\* the number of calendar days, as getUserStreak keys them, on which the
\* user has an entry
DaysWithEntry(chatId) ==
    Cardinality({entries[i].createdAt \div 24 :
                    i \in {k \in DOMAIN entries : entries[k].chatId = chatId}})

\* a call of getUserStreak is in its loop
Walking == tasks # <<>>

\* the streak never exceeds the number of days with an entry, in the loop
\* and at the return
WalkBound ==
    /\ \A i \in DOMAIN tasks :
            tasks[i].streak >= 0 /\ tasks[i].streak <= DaysWithEntry(tasks[i].chatId)
    /\ \A e \in Returned :
            e.streak >= 0 /\ e.streak <= DaysWithEntry(e.chatId)

\* C37: the backward walk of getUserStreak ends for every finite
\* collection (a call that is in its loop returns), and the streak s it
\* returns satisfies 0 <= s <= the number of distinct calendar days on
\* which the user has an entry.
C37_WalkEnds == []WalkBound /\ (Walking ~> ~Walking)

\* a walk over three consecutive days has returned 3
C37_Witness ==
    /\ tasks = <<>>
    /\ \E e \in Returned :
            e.h = "get_user_streak" /\ e.streak = 3 /\ DaysWithEntry(e.chatId) = 3

\* the walk returns what getUserStreak returns
C37_SameResult ==
    \A e \in Returned : e.h = "get_user_streak" => e.streak = getUserStreak(e.chatId)

\* the progress messages of the last step that show a progress
Progressed == {e \in Returned : e.h = "progress_message" /\ e.progress # <<>>}

\* the entries of the user that were made on the current day of the zone
MadeToday(chatId) ==
    Cardinality({i \in DOMAIN entries :
        /\ entries[i].chatId = chatId
        /\ (entries[i].createdAt + zone) \div 24 = (clock + zone) \div 24})

\* C38: for every goal from 1 to 50 and every number of entries of today,
\* the progress shown after an entry is saved is 100 if and only if that
\* number is at least the goal, which is exactly when the line 'Daily goal
\* achieved' is shown: rounding never shows 100% for a goal that is not met.
C38_FullWhenMet ==
    \A e \in Progressed :
        /\ users[e.chatId].dailyGoal # <<>>
        /\ users[e.chatId].dailyGoal[1] \in 1..50
        /\ (e.progress[1] = 100) = (MadeToday(e.chatId) >= users[e.chatId].dailyGoal[1])
        /\ (e.progress[1] = 100) = e.achieved

\* 49 entries against a goal of 50: 98%, and no line about the goal
C38_Witness ==
    \E e \in Progressed :
        /\ users[e.chatId].dailyGoal = <<50>> /\ e.todayCount = 49
        /\ e.progress = <<98>> /\ ~e.achieved

\* the answers that the history of the user's quiz holds
Answers(u) ==
    {userStates[u].history[k].content :
        k \in {n \in DOMAIN userStates[u].history : userStates[u].history[n].role = "user"}}

\* C39: every answer handled in the inline_quiz flow is recorded against a
\* question that was sent to the user before: no answer in the history is
\* an answer to undefined, also when the text arrived while the first
\* question was still being generated.
C39_AnswersAQuestion ==
    \A u \in Users :
        userStates[u].command = "inline_quiz" =>
            \A c \in Answers(u) : \E q \in Questions : c = AnswerTo(q, <<"a">>)

\* an answer that arrives when a question has been sent is recorded against
\* that question
C39_AfterFirstQuestion ==
    [][\A u \in Users :
        (/\ userStates[u].command = "inline_quiz"
         /\ userStates[u].lastQuestion \in Questions
         /\ userStates'[u].command = "inline_quiz"
         /\ Len(userStates'[u].history) = Len(userStates[u].history) + 1
         /\ userStates'[u].history[Len(userStates'[u].history)].role = "user")
        => userStates'[u].history[Len(userStates'[u].history)].content
             = AnswerTo(userStates[u].lastQuestion, <<"a">>)]_vars

====
